---- MODULE Spec2Model ----
(***************************************************************************)
(* A model of SkywarnPlus.py: the alert normaliser, the severity sort, the *)
(* persisted state, the diff of two alert collections, the courtesy-tone   *)
(* and identifier switches, the trigger dispatcher and the poll cycle      *)
(* main() that ties them together.                                         *)
(*                                                                         *)
(* Representation.  A title is the sequence of its words ("Tornado        *)
(* Warning" is <<"Tornado", "Warning">>), so that title.split()[-1] is the *)
(* last element and a glob pattern is a sequence of words and "*".  A zone *)
(* code is the sequence of its characters.  An OrderedDict is a sequence   *)
(* of <<key, value>> pairs with distinct keys, in iteration order.         *)
(***************************************************************************)
EXTENDS Integers, Sequences, FiniteSets, TLC

VARIABLES
    sIn,        \* SpecSort: the collection handed to the severity sort
    sOut,       \* SpecSort: sort_alerts(sIn)
    sOut2,      \* SpecSort: sort_alerts(sort_alerts(sIn))
    sGot,       \* SpecSort: the sort at the end of get_alerts applied to sIn
    sPc,        \* SpecSort: which of the calls have been made
    dataFile,   \* DATA_FILE (data.json): <<>> when absent, else <<its content>>
    rptCT1,     \* the active courtesy-tone slot RptCT1: which asset it holds
    rptCT2,     \* the active courtesy-tone slot RptCT2
    rptID,      \* the active identifier slot RptID
    tailFile,   \* TAILMESSAGE_FILE: the segments of the standing tail message
    effects,    \* the writes and external commands of the last call or cycle, in order
    calls,      \* SpecTone: the last two calls of change_ct / change_id
    dOld,       \* SpecDiff: the previous collection (last_alerts)
    dNew,       \* SpecDiff: the current collection (alerts)
    dRes,       \* SpecDiff: what main computed from them: added, removed, changed
    dPc,        \* SpecDiff: whether the diff has been computed
    cfg,        \* config.yaml as loaded, fixed for the run
    now,        \* the clock: datetime.now(timezone.utc) of the last cycle
    outcome,    \* "init", or how the last cycle ended: "done" or "raised"
    fetched,    \* the collection get_alerts returned in the last cycle, or the
                \* one it handed to the sort when the sort raised
    fired,      \* per mapping and title: how often the action ran for the title
                \* since the title last appeared
    args,       \* the arguments of a function called on its own
    result,     \* what that call returned, or that it raised
    pc          \* "off", "ready" before the call, "called" after it

sortVars == <<sIn, sOut, sOut2, sGot, sPc>>

worldVars == <<dataFile, rptCT1, rptCT2, rptID, tailFile, effects>>

diffVars == <<dOld, dNew, dRes, dPc>>

cycleVars == <<cfg, now, outcome, fetched, fired>>

unitVars == <<args, result, pc>>

vars == <<sortVars, worldVars, calls, diffVars, cycleVars, unitVars>>

(***************************************************************************)
(* Bounds of the model.                                                    *)
(***************************************************************************)
\* Alerting.MaxAlerts of the configuration (99 when absent); small here so
\* that the truncation happens.
MAX_ALERTS == 2
\* the longest collection handed to the sort in SpecSort
MaxSortTitles == 3
\* the longest collection handed to the diff in SpecDiff
MaxDiffTitles == 2
\* the last instant of the clock
MaxNow == 2
\* the most records one fetch returns
MaxFeatures == 1
\* the most records one fetch returns in SpecFetch
MaxFetchFeatures == 2
\* the count of runs of an action is not kept beyond this
MaxFired == 2
\* the most titles in a collection handed to alert_script in SpecScript
MaxScriptTitles == 2
MaxSayTitles == 2
MaxSayOccurrences == 2

(***************************************************************************)
(* Sequences.                                                              *)
(***************************************************************************)
Range(s) == {s[i] : i \in DOMAIN s}

Reverse(s) == [i \in 1..Len(s) |-> s[Len(s) + 1 - i]]

\* list(...)[:n]
Take(s, n) == IF Len(s) <= n THEN s ELSE SubSeq(s, 1, n)

Min2(a, b) == IF a <= b THEN a ELSE b

NoDup(s) == \A i, j \in DOMAIN s : s[i] = s[j] => i = j

\* the sequences over S without repetition, of length at most n
RECURSIVE DistinctSeqs(_, _)
DistinctSeqs(S, n) ==
    IF n = 0 THEN {<<>>}
    ELSE LET shorter == DistinctSeqs(S, n - 1)
         IN  shorter \cup {q \in {Append(s, x) : s \in shorter, x \in S} : NoDup(q)}

(***************************************************************************)
(* Titles (ALERT_STRINGS) and occurrences.                                 *)
(***************************************************************************)
TornadoWarning == <<"Tornado", "Warning">>
FloodWarning   == <<"Flood", "Warning">>
FloodWatch     == <<"Flood", "Watch">>
TestTitle      == <<"Test">>
TornadoWatch   == <<"Tornado", "Watch">>
WindAdvisory   == <<"Wind", "Advisory">>
\* an event name of the feed that ALERT_STRINGS does not have
DustDevil      == <<"Dust", "Devil">>
SpecialWeatherStatement == <<"Special", "Weather", "Statement">>

ALERT_STRINGS ==
    <<FloodWarning, FloodWatch, SpecialWeatherStatement, TestTitle, TornadoWarning,
      TornadoWatch, WindAdvisory>>

\* zone codes
ZoneA == <<"A">>
ZoneB == <<"B">>
\* a configured code written with braces, which the report strips
ZoneBraced == <<"{", "A", "}">>

Occ(code, sev, desc, endt) ==
    [county_code |-> code, severity |-> sev, description |-> desc, end_time_utc |-> endt]

\* OrderedDict()
NoColl == <<>>

\* OrderedDict views
Keys(d) == [i \in 1..Len(d) |-> d[i][1]]
KeySet(d) == {d[i][1] : i \in DOMAIN d}
HasKey(d, k) == k \in KeySet(d)
Get(d, k) == LET i == CHOOSE j \in DOMAIN d : d[j][1] = k IN d[i][2]

(***************************************************************************)
(* The severity sort: sort_alerts, and the same code at the end of         *)
(* get_alerts.                                                             *)
(***************************************************************************)
\* severity_mapping_words.get(word, 0)
severity_mapping_words(word) ==
    CASE word = "Warning"   -> 4
      [] word = "Watch"     -> 3
      [] word = "Advisory"  -> 2
      [] word = "Statement" -> 1
      [] OTHER              -> 0

\* item[0].split()[-1]
LastWord(title) == title[Len(title)]

\* max([x["severity"] for x in item[1]]); Python raises ValueError on an
\* empty list, see SortRaises
MaxSeverity(occs) ==
    CHOOSE m \in {occs[i].severity : i \in DOMAIN occs} :
        \A i \in DOMAIN occs : occs[i].severity <= m

\* the key function of both sorts
SortKey(item) ==
    <<MaxSeverity(item[2]), severity_mapping_words(LastWord(item[1]))>>

\* tuple comparison
KeyLess(a, b) == a[1] < b[1] \/ (a[1] = b[1] /\ a[2] < b[2])

\* a stable ascending sort (elements are inserted after their equals)
RECURSIVE InsertAsc(_, _)
InsertAsc(s, x) ==
    IF s = <<>> THEN <<x>>
    ELSE IF KeyLess(SortKey(x), SortKey(Head(s))) THEN <<x>> \o s
    ELSE <<Head(s)>> \o InsertAsc(Tail(s), x)

RECURSIVE StableSortAsc(_)
StableSortAsc(s) ==
    IF s = <<>> THEN <<>>
    ELSE InsertAsc(StableSortAsc(SubSeq(s, 1, Len(s) - 1)), s[Len(s)])

\* a descending sort that turns the order of equal keys around
SortedReverseFlipsTies(items) == Reverse(StableSortAsc(items))

\* sorted(items, key=..., reverse=True): CPython reverses the list, sorts it
\* stably in ascending order and reverses the result
SortedReverse(items) == Reverse(StableSortAsc(Reverse(items)))

\* the key is evaluated for every item, so one empty occurrence list raises
SortRaises(alerts) == \E i \in DOMAIN alerts : alerts[i][2] = <<>>

\* a truncation that keeps one title too many
TruncateOffByOne(items) == Take(items, MAX_ALERTS + 1)

\* OrderedDict(list(sorted_alerts.items())[:MAX_ALERTS])
Truncate(items) == Take(items, MAX_ALERTS)

sort_alerts(alerts) == Truncate(SortedReverse(alerts))

\* lines 650-662 of get_alerts: the same sort and truncation, inline
get_alerts_sort(alerts) == Truncate(SortedReverse(alerts))

(***************************************************************************)
(* The persisted state (load_state, save_state) and the files the program  *)
(* writes.  Operations take and return a "world": the state file, the      *)
(* active tone and identifier slots, the tail message and the log of       *)
(* writes and external commands made so far.                               *)
(***************************************************************************)
\* JSON null / Python None for the "ct" and "id" fields
None == "None"

\* last_sayalert is a list (its elements in keys) or a dict title -> codes
\* (map, with the insertion order of the titles in keys); Python never finds
\* a list equal to a dict
EmptyMap == [t \in {} |-> <<>>]
List(elems) == [kind |-> "list", map |-> EmptyMap, keys |-> elems]
EmptyList == List(<<>>)
Dict(f, order) == [kind |-> "dict", map |-> f, keys |-> order]

\* list(x): the elements of a list, the keys of a dict
ListOf(x) == List(x.keys)

\* the keys of the state
StateKeys == {"ct", "id", "alertscript_alerts", "last_alerts", "last_sayalert", "active_alerts"}

\* the default state of load_state when the file does not exist.
\* absent_keys are the keys of StateKeys the dict does not have (their
\* fields hold the values below).
DefaultState ==
    [ct |-> None, id |-> None, alertscript_alerts |-> {},
     last_alerts |-> NoColl, last_sayalert |-> EmptyList, active_alerts |-> {},
     absent_keys |-> {}]

\* the content of a state file that is not JSON
Unparseable == [text |-> "not JSON"]

\* json.load raised
JSONDecodeError == [exc |-> "JSONDecodeError"]

\* OrderedDict((x[0], x[1]) for x in last_alerts): a repeated key keeps its
\* first position and takes the last value
RECURSIVE OrderedDictOf(_)
OrderedDictOf(pairs) ==
    IF pairs = <<>> THEN <<>>
    ELSE LET front == OrderedDictOf(SubSeq(pairs, 1, Len(pairs) - 1))
             kv == pairs[Len(pairs)]
         IN  IF HasKey(front, kv[1])
             THEN [i \in DOMAIN front |->
                      IF front[i][1] = kv[1] THEN <<kv[1], kv[2]>> ELSE front[i]]
             ELSE Append(front, <<kv[1], kv[2]>>)

\* an event of the log: a write or an external command
\* an event made for mapping number m of AlertScript.Mappings
EvM(kind, m, title, a, b) == [kind |-> kind, m |-> m, title |-> title, a |-> a, b |-> b]
Ev(kind, title, a, b) == EvM(kind, 0, title, a, b)
NoTitle == <<>>

World(data, ct1, ct2, id, tail, fx) ==
    [data |-> data, rpt_ct1 |-> ct1, rpt_ct2 |-> ct2, rpt_id |-> id, tail |-> tail, fx |-> fx]

Log(w, e) == [w EXCEPT !.fx = Append(@, e)]

\* os.path.exists(DATA_FILE)
DataFileExists(w) == w.data # <<>>

\* the keys load_state gives a default with state.get
DefaultedKeys == {"alertscript_alerts", "last_alerts", "last_sayalert", "active_alerts"}

\* load_state: the file's content with last_alerts as an OrderedDict and the
\* four defaults of lines 333-343, or the default state when there is no
\* file.  json.load raises on a file that is not JSON, and nothing catches
\* it.  The lists alertscript_alerts and active_alerts are only ever read as
\* sets, and are kept as sets here.
load_state(w) ==
    IF ~DataFileExists(w) THEN DefaultState
    ELSE IF w.data[1] = Unparseable THEN JSONDecodeError
    ELSE [w.data[1] EXCEPT !.last_alerts = OrderedDictOf(@),
                           !.absent_keys = @ \ DefaultedKeys]

\* list(last_alerts.items()): the pairs of title and occurrences, in order
Items(od) == [i \in DOMAIN od |-> <<od[i][1], od[i][2]>>]

\* save_state that writes the state over the old content key by key: a key
\* the state does not have keeps the value of the old file
save_state_merge(w, state) ==
    LET stale == DataFileExists(w) /\ w.data[1] # Unparseable
                 /\ "ct" \in state.absent_keys /\ "ct" \notin w.data[1].absent_keys
        merged == IF stale
                  THEN [state EXCEPT !.ct = w.data[1].ct, !.absent_keys = @ \ {"ct"}]
                  ELSE state
    IN  Log([w EXCEPT !.data = <<[merged EXCEPT !.last_alerts = Items(@),
                                                !.last_sayalert = ListOf(@)]>>],
            Ev("save_state", NoTitle, "", ""))

\* save_state: the whole state is written over the file (open(DATA_FILE,
\* "w") and one json.dump); last_alerts goes out as list(items()),
\* last_sayalert as list(last_sayalert)
save_state(w, state) ==
    Log([w EXCEPT !.data = <<[state EXCEPT !.last_alerts = Items(@),
                                           !.last_sayalert = ListOf(@)]>>],
        Ev("save_state", NoTitle, "", ""))

(***************************************************************************)
(* The two switches: change_ct and change_id.                              *)
(***************************************************************************)
\* shutil.copyfile(src, dest) onto one of the active slots
CopyFile(w, src, slot) ==
    Log(CASE slot = "RptCT1" -> [w EXCEPT !.rpt_ct1 = src]
          [] slot = "RptCT2" -> [w EXCEPT !.rpt_ct2 = src]
          [] slot = "RptID"  -> [w EXCEPT !.rpt_id = src],
        Ev("copyfile", NoTitle, src, slot))

Ret(w, ret) == [w |-> w, ret |-> ret]

\* change_ct that copies the assets but does not persist the new tone
change_ct_unsaved(w, ct) ==
    LET state == load_state(w)
    IN  IF state = JSONDecodeError THEN Ret(w, "JSONDecodeError")
        ELSE IF ct = state.ct THEN Ret(w, "False")
        ELSE IF ct = "NORMAL"
             THEN Ret(CopyFile(CopyFile(w, "CT1", "RptCT1"), "CT2", "RptCT2"), "True")
             ELSE Ret(CopyFile(CopyFile(w, "WXCT", "RptCT1"), "WXCT", "RptCT2"), "True")

\* change_ct(ct): "True", "False" or None as returned, or the exception
\* that ends it: load_state's, or the KeyError of state["ct"] at line 1119
change_ct(w, ct) ==
    LET state == load_state(w)
    IN  IF state = JSONDecodeError THEN Ret(w, "JSONDecodeError")
        ELSE IF "ct" \in state.absent_keys THEN Ret(w, "KeyError")
        ELSE IF ct = None THEN Ret(w, None)
        ELSE IF ct = state.ct THEN Ret(w, "False")
        ELSE LET copied ==
                     IF ct = "NORMAL"
                     THEN CopyFile(CopyFile(w, "CT1", "RptCT1"), "CT2", "RptCT2")
                     ELSE CopyFile(CopyFile(w, "WXCT", "RptCT1"), "WXCT", "RptCT2")
             IN  Ret(save_state(copied, [state EXCEPT !.ct = ct]), "True")

\* change_id that writes a state of its own, with nothing but the
\* identifier, instead of the state it loaded
change_id_fresh(w, id) ==
    LET state == load_state(w)
    IN  IF state = JSONDecodeError THEN Ret(w, "JSONDecodeError")
        ELSE IF "id" \in state.absent_keys THEN Ret(w, "KeyError")
        ELSE IF id = None THEN Ret(w, None)
        ELSE IF id = state.id THEN Ret(w, "False")
        ELSE LET copied ==
                     IF id = "NORMAL"
                     THEN CopyFile(w, "NormalID", "RptID")
                     ELSE CopyFile(w, "WXID", "RptID")
             IN  Ret(save_state(copied, [DefaultState EXCEPT !.id = id]), "True")

\* change_id(id), with the KeyError of state["id"] at line 1184
change_id(w, id) ==
    LET state == load_state(w)
    IN  IF state = JSONDecodeError THEN Ret(w, "JSONDecodeError")
        ELSE IF "id" \in state.absent_keys THEN Ret(w, "KeyError")
        ELSE IF id = None THEN Ret(w, None)
        ELSE IF id = state.id THEN Ret(w, "False")
        ELSE LET copied ==
                     IF id = "NORMAL"
                     THEN CopyFile(w, "NormalID", "RptID")
                     ELSE CopyFile(w, "WXID", "RptID")
             IN  Ret(save_state(copied, [state EXCEPT !.id = id]), "True")

(***************************************************************************)
(* The diff of two collections: detect_county_changes, and the added and   *)
(* removed lists of main.                                                  *)
(***************************************************************************)
\* {info["county_code"] for info in alert_info}
CountyCodeSet(occs) == {occs[i].county_code : i \in DOMAIN occs}

NotBraceOrQuote(ch) == ch \notin {"{", "}", "\""}

\* code.replace("{", "").replace("}", "").replace('"', "")
StripBraces(code) == SelectSeq(code, NotBraceOrQuote)

NoChanges == [changed |-> NoColl, details |-> NoColl]

NoDiff == [added |-> <<>>, removed |-> <<>>, changed |-> NoColl, details |-> NoColl]

\* the entry of one title of new_alerts, called only for a title of both
CountyChange(old_alerts, new_alerts, i) ==
    LET alert_name == new_alerts[i][1]
        old_county_codes == CountyCodeSet(Get(old_alerts, alert_name))
        new_county_codes == CountyCodeSet(new_alerts[i][2])
    IN  [old |-> old_county_codes,
         added |-> {StripBraces(code) : code \in new_county_codes \ old_county_codes},
         removed |-> {StripBraces(code) : code \in old_county_codes \ new_county_codes}]

\* detect_county_changes with the added and the removed codes exchanged
RECURSIVE detect_county_changes_swapped(_, _)
detect_county_changes_swapped(old_alerts, new_alerts) ==
    IF new_alerts = <<>> THEN NoChanges
    ELSE LET n == Len(new_alerts)
             front == detect_county_changes_swapped(old_alerts, SubSeq(new_alerts, 1, n - 1))
             alert_name == new_alerts[n][1]
         IN  IF ~HasKey(old_alerts, alert_name) THEN front
             ELSE LET c == CountyChange(old_alerts, new_alerts, n)
                  IN  IF c.added # {} \/ c.removed # {}
                      THEN [changed |-> Append(front.changed, new_alerts[n]),
                            details |-> Append(front.details,
                                <<alert_name, [c EXCEPT !.added = c.removed, !.removed = c.added]>>)]
                      ELSE front

\* detect_county_changes without the skip of titles absent from old_alerts
\* (old_alerts.get(alert_name, []) then stands for no zones)
RECURSIVE detect_county_changes_noskip(_, _)
detect_county_changes_noskip(old_alerts, new_alerts) ==
    IF new_alerts = <<>> THEN NoChanges
    ELSE LET n == Len(new_alerts)
             front == detect_county_changes_noskip(old_alerts, SubSeq(new_alerts, 1, n - 1))
             alert_name == new_alerts[n][1]
             old_info == IF HasKey(old_alerts, alert_name)
                         THEN Get(old_alerts, alert_name) ELSE <<>>
             c == CountyChange(<<<<alert_name, old_info>>>>, new_alerts, n)
         IN  IF c.added # {} \/ c.removed # {}
             THEN [changed |-> Append(front.changed, new_alerts[n]),
                   details |-> Append(front.details, <<alert_name, c>>)]
             ELSE front

\* detect_county_changes: the loop over new_alerts.items(), in order
RECURSIVE detect_county_changes(_, _)
detect_county_changes(old_alerts, new_alerts) ==
    IF new_alerts = <<>> THEN NoChanges
    ELSE LET n == Len(new_alerts)
             front == detect_county_changes(old_alerts, SubSeq(new_alerts, 1, n - 1))
             alert_name == new_alerts[n][1]
         IN  IF ~HasKey(old_alerts, alert_name) THEN front
             ELSE LET c == CountyChange(old_alerts, new_alerts, n)
                  IN  IF c.added # {} \/ c.removed # {}
                      THEN [changed |-> Append(front.changed, new_alerts[n]),
                            details |-> Append(front.details, <<alert_name, c>>)]
                      ELSE front

\* [alert for alert in a if alert not in b]
KeysNotIn(a, b) ==
    LET Absent(k) == ~HasKey(b, k) IN SelectSeq(Keys(a), Absent)

\* the comparison that looks at the titles only
main_diff_titles(last_alerts, alerts) ==
    [added |-> KeysNotIn(alerts, last_alerts),
     removed |-> KeysNotIn(last_alerts, alerts),
     changed |-> NoChanges.changed,
     details |-> NoChanges.details]

\* main, lines 1543-1580: added_alerts, removed_alerts, and the changed
\* alerts, which are looked for only when alerts is not empty
main_diff(last_alerts, alerts) ==
    LET det == IF alerts # <<>> THEN detect_county_changes(last_alerts, alerts)
               ELSE NoChanges
    IN  [added |-> KeysNotIn(alerts, last_alerts),
         removed |-> KeysNotIn(last_alerts, alerts),
         changed |-> det.changed,
         details |-> det.details]

(***************************************************************************)
(* The configuration.                                                      *)
(***************************************************************************)
\* Alerting.CountyCodes
COUNTY_CODES == <<ZoneA, ZoneB>>
\* the identifier clip of each code, in the order of COUNTY_CODES
COUNTY_WAVS == <<"A.wav", "B.wav">>

\* a glob pattern is a sequence of words and "*"; "*" stands for any run of
\* words
PatTornadoAny == <<"Tornado", "*">>
PatAnyWarning == <<"*", "Warning">>
PatFloodAny   == <<"Flood", "*">>

\* AlertScript.Mappings
Mapping(triggers, commands, nodes, match, type) ==
    [Triggers |-> triggers, Commands |-> commands, Nodes |-> nodes,
     Match |-> match, Type |-> type]

Mappings ==
    << Mapping(<<PatTornadoAny, PatAnyWarning>>, <<"siren {alert_title}">>, <<>>, "ANY", "BASH"),
       Mapping(<<PatFloodAny>>, <<"*123">>, <<"1000">>, "ANY", "DTMF") >>

\* everything enabled
ConfigFull ==
    [name |-> "full",
     EnableCT |-> TRUE, CTAlerts |-> <<TornadoWarning>>,
     EnableID |-> TRUE, IDAlerts |-> <<TornadoWarning, FloodWatch>>,
     EnableTail |-> TRUE, TailmessageSuffix |-> None, AudioDelay |-> 0,
     SayAlert |-> TRUE, SayAlertAll |-> FALSE, SayAllClear |-> TRUE,
     SayAlertsChanged |-> TRUE, CountyWavs |-> TRUE,
     WithMultiples |-> FALSE, TailmessageCounties |-> FALSE,
     SayAlertSuffix |-> None, MissingClips |-> {},
     AlertScript |-> TRUE, Mappings |-> Mappings,
     SupermonCompat |-> TRUE, Pushover |-> FALSE,
     GlobalBlockedEvents |-> <<>>, SayAlertBlockedEvents |-> <<>>,
     TailmessageBlockedEvents |-> <<>>,
     TimeType |-> "onset", Nodes |-> <<"1000">>]

\* the tail message alone: no automatic tone or identifier change, no
\* announcement, no triggers
ConfigTail ==
    [ConfigFull EXCEPT !.name = "tail", !.EnableCT = FALSE, !.EnableID = FALSE,
                       !.SayAlert = FALSE, !.SayAllClear = FALSE,
                       !.AlertScript = FALSE, !.SupermonCompat = FALSE]

Configs == {ConfigFull, ConfigTail}

\* the first mapping with Match: ALL
MappingsAll ==
    << Mapping(<<PatTornadoAny, PatAnyWarning>>, <<"siren {alert_title}">>, <<>>, "ALL", "BASH"),
       Mapping(<<PatFloodAny>>, <<"*123">>, <<"1000">>, "ANY", "DTMF") >>

ConfigAllMode == [ConfigFull EXCEPT !.name = "all", !.Mappings = MappingsAll]

\* a mapping without Match, one of a Type that is neither BASH nor DTMF
\* (with Match in lower case), and a DTMF mapping after it
MappingsKinds ==
    << Mapping(<<PatTornadoAny, PatAnyWarning>>, <<"siren {alert_title}">>, <<>>, None, "BASH"),
       Mapping(<<PatFloodAny>>, <<"play {alert_title}">>, <<"1000">>, "any", "PLAY"),
       Mapping(<<PatFloodAny>>, <<"*123">>, <<"1000">>, "ANY", "DTMF") >>

ConfigKinds == [ConfigFull EXCEPT !.name = "kinds", !.Mappings = MappingsKinds]

(***************************************************************************)
(* get_alerts: the normaliser, the cached fallback and the final sort.     *)
(***************************************************************************)
\* severity_mapping_api.get(severity, 0)
severity_mapping_api(sev) ==
    CASE sev = "Extreme"  -> 4
      [] sev = "Severe"   -> 3
      [] sev = "Moderate" -> 2
      [] sev = "Minor"    -> 1
      [] OTHER            -> 0

\* fnmatch.fnmatch(name, pattern), on words
RECURSIVE fnmatch(_, _)
fnmatch(name, pat) ==
    IF pat = <<>> THEN name = <<>>
    ELSE IF Head(pat) = "*"
         THEN fnmatch(name, Tail(pat)) \/ (name # <<>> /\ fnmatch(Tail(name), pat))
         ELSE name # <<>> /\ Head(name) = Head(pat) /\ fnmatch(Tail(name), Tail(pat))

MatchesAny(name, patterns) == \E i \in DOMAIN patterns : fnmatch(name, patterns[i])

\* a feed record: feature["properties"].  An absent field is <<>>, a present
\* severity is <<word>>, a present time is <<local time, UTC offset>>
Feature(event, severity, description, onset, ends, effective, expires) ==
    [event |-> event, severity |-> severity, description |-> description,
     onset |-> onset, ends |-> ends, effective |-> effective, expires |-> expires]

\* parser.isoparse(t).astimezone(timezone.utc)
ToUtc(t) == t[1] - t[2]

\* the start and end fields for the configured TimeType
time_type_start(f) == IF cfg.TimeType = "effective" THEN f.effective ELSE f.onset
time_type_end(f) == IF cfg.TimeType = "effective" THEN f.expires ELSE f.ends

\* the end field, or "expires" when it is missing
EndField(f) == IF time_type_end(f) = <<>> THEN f.expires ELSE time_type_end(f)

\* severity from the last word of the event whatever the API says
FeatureSeverity_words(f) == severity_mapping_words(LastWord(f.event))

\* severity from the API's field, else from the last word of the event
FeatureSeverity(f) ==
    IF f.severity = <<>> THEN severity_mapping_words(LastWord(f.event))
    ELSE severity_mapping_api(f.severity[1])

\* the merge that keeps one occurrence for each zone code of a title
AppendOcc_dedup(coll, event, occ) ==
    IF HasKey(coll, event)
    THEN [i \in DOMAIN coll |->
             IF /\ coll[i][1] = event
                /\ \A k \in DOMAIN coll[i][2] : coll[i][2][k].county_code # occ.county_code
             THEN <<event, Append(coll[i][2], occ)>> ELSE coll[i]]
    ELSE Append(coll, <<event, <<occ>>>>)

\* alerts[event].append(occ), or alerts[event] = [occ] for an unseen event
AppendOcc(coll, event, occ) ==
    IF HasKey(coll, event)
    THEN [i \in DOMAIN coll |->
             IF coll[i][1] = event THEN <<event, Append(coll[i][2], occ)>> ELSE coll[i]]
    ELSE Append(coll, <<event, <<occ>>>>)

\* the loop body that takes a record up to and including its end
ProcessFeature_inclusive(coll, f, countyCode, current_time) ==
    LET start == time_type_start(f)
        end == EndField(f)
    IN  IF start = <<>> \/ end = <<>> THEN coll
        ELSE IF ~(ToUtc(start) <= current_time /\ current_time <= ToUtc(end)) THEN coll
        ELSE IF MatchesAny(f.event, cfg.GlobalBlockedEvents) THEN coll
        ELSE AppendOcc(coll, f.event,
                       Occ(countyCode, FeatureSeverity(f), f.description, ToUtc(end)))

\* the body of the loop over alert_data["features"] for one record
ProcessFeature(coll, f, countyCode, current_time) ==
    LET start == time_type_start(f)
        end == EndField(f)
    IN  IF start = <<>> \/ end = <<>> THEN coll
        ELSE IF ~(ToUtc(start) <= current_time /\ current_time < ToUtc(end)) THEN coll
        ELSE IF MatchesAny(f.event, cfg.GlobalBlockedEvents) THEN coll
        ELSE AppendOcc(coll, f.event,
                       Occ(countyCode, FeatureSeverity(f), f.description, ToUtc(end)))

RECURSIVE ProcessFeatures(_, _, _, _)
ProcessFeatures(coll, features, countyCode, current_time) ==
    IF features = <<>> THEN coll
    ELSE ProcessFeatures(ProcessFeature(coll, Head(features), countyCode, current_time),
                         Tail(features), countyCode, current_time)

\* the filter with an occurrence that ends at this very instant dropped
Unexpired_strict(occs, current_time) ==
    LET Keep(o) == o.end_time_utc > current_time IN SelectSeq(occs, Keep)

\* the occurrences of one stored alert that have not expired
Unexpired(occs, current_time) ==
    LET Keep(o) == o.end_time_utc >= current_time IN SelectSeq(occs, Keep)

\* lines 624-645: alerts[event] = [] for every stored title, then the
\* occurrences that have not expired are appended
StoredAlerts(stored, current_time) ==
    OrderedDictOf([i \in DOMAIN stored |->
                      <<stored[i][1], Unexpired(stored[i][2], current_time)>>])

\* the except branch: the stored alerts when the data file exists, else the
\* alerts collected so far
Fallback(w, coll, current_time) ==
    IF DataFileExists(w)
    THEN StoredAlerts(w.data[1].last_alerts, current_time)
    ELSE coll

\* the alerts collected and the zones requested so far
Fetched(coll, requested) == [alerts |-> coll, requested |-> requested]

\* the loop over countyCodes, from the i-th code on; a failed fetch ends it
\* (the break of line 648)
RECURSIVE FetchLoop(_, _, _, _, _)
FetchLoop(w, feed, i, acc, current_time) ==
    IF i > Len(COUNTY_CODES) THEN acc
    ELSE LET requested == Append(acc.requested, COUNTY_CODES[i])
         IN  IF ~feed[i].ok
             THEN Fetched(Fallback(w, acc.alerts, current_time), requested)
             ELSE FetchLoop(w, feed, i + 1,
                     Fetched(ProcessFeatures(acc.alerts, feed[i].features,
                                             COUNTY_CODES[i], current_time),
                             requested),
                     current_time)

\* get_alerts(COUNTY_CODES): the collection handed to the final sort, the
\* sorted, truncated collection unless the sort raised, and the zones whose
\* alerts were requested
get_alerts(w, feed, current_time) ==
    LET got == FetchLoop(w, feed, 1, Fetched(NoColl, <<>>), current_time)
        unsorted == got.alerts
    IN  IF SortRaises(unsorted)
        THEN [raised |-> TRUE, unsorted |-> unsorted, alerts |-> unsorted,
              requested |-> got.requested]
        ELSE [raised |-> FALSE, unsorted |-> unsorted,
              alerts |-> get_alerts_sort(unsorted), requested |-> got.requested]

(***************************************************************************)
(* alert_script: the trigger dispatcher.                                   *)
(***************************************************************************)
RECURSIVE Flatten(_)
Flatten(ss) == IF ss = <<>> THEN <<>> ELSE Head(ss) \o Flatten(Tail(ss))

\* the loop "for alert in new_alerts: for trigger in triggers": the alert is
\* appended once for every trigger it matches
MatchedAlerts(new_alerts, triggers) ==
    Flatten([i \in DOMAIN new_alerts |->
        Flatten([j \in DOMAIN triggers |->
            IF fnmatch(new_alerts[i], triggers[j]) THEN <<new_alerts[i]>> ELSE <<>>])])

\* str.upper() on the spellings of the match modes
Upper(word) ==
    CASE word \in {"any", "Any"} -> "ANY"
      [] word \in {"all", "All"} -> "ALL"
      [] OTHER -> word

\* mapping.get("Match", "ANY").upper(); a mapping without the key has
\* Match = None
match_type(mapping) == IF mapping.Match = None THEN "ANY" ELSE Upper(mapping.Match)

\* the test on Match as written in the mapping, with no default and no
\* upper()
MappingFires_literal(mapping, matched) ==
    \/ mapping.Match = "ANY" /\ matched # <<>>
    \/ mapping.Match = "ALL" /\ Len(matched) = Len(mapping.Triggers)

\* match_type == "ANY" and matched_alerts or
\* match_type == "ALL" and len(matched_alerts) == len(triggers)
MappingFires(mapping, matched) ==
    \/ match_type(mapping) = "ANY" /\ matched # <<>>
    \/ match_type(mapping) = "ALL" /\ Len(matched) = Len(mapping.Triggers)

\* the commands of a mapping run by the shell whenever its Type is not DTMF
ActionEvents_shell(m, mapping, alert) ==
    IF mapping.Type = "DTMF"
    THEN Flatten([n \in DOMAIN mapping.Nodes |->
             [c \in DOMAIN mapping.Commands |->
                 EvM("dtmf", m, alert, mapping.Commands[c], mapping.Nodes[n])]])
    ELSE [c \in DOMAIN mapping.Commands |-> EvM("bash", m, alert, mapping.Commands[c], "")]

\* the commands run for one matched alert of mapping number m
ActionEvents(m, mapping, alert) ==
    IF mapping.Type = "BASH"
    THEN [c \in DOMAIN mapping.Commands |-> EvM("bash", m, alert, mapping.Commands[c], "")]
    ELSE IF mapping.Type = "DTMF"
    THEN Flatten([n \in DOMAIN mapping.Nodes |->
             [c \in DOMAIN mapping.Commands |->
                 EvM("dtmf", m, alert, mapping.Commands[c], mapping.Nodes[n])]])
    ELSE <<>>

\* the loop over the mappings from number m on: the processed titles and the
\* commands run
RECURSIVE RunMappings(_, _, _, _)
RunMappings(m, new_alerts, processed, fx) ==
    IF m > Len(cfg.Mappings) THEN [processed |-> processed, fx |-> fx]
    ELSE LET mapping == cfg.Mappings[m]
             matched == MatchedAlerts(new_alerts, mapping.Triggers)
         IN  IF MappingFires(mapping, matched)
             THEN RunMappings(m + 1, new_alerts, processed \cup Range(matched),
                      fx \o Flatten([i \in DOMAIN matched |->
                                        ActionEvents(m, mapping, matched[i])]))
             ELSE RunMappings(m + 1, new_alerts, processed, fx)

\* alert_script that leaves active_alerts as it found it
alert_script_stale(w, alerts_, hash_order) ==
    LET state == load_state(w)
        alert_names == KeySet(alerts_)
        IsNew(t) == t \in alert_names \ state.active_alerts
        cleared_alerts == state.active_alerts \ alert_names
        ran == RunMappings(1, SelectSeq(hash_order, IsNew), state.alertscript_alerts, <<>>)
    IN  save_state([w EXCEPT !.fx = @ \o ran.fx],
                   [state EXCEPT !.alertscript_alerts = ran.processed \ cleared_alerts])

\* alert_script that keeps the processed titles of cleared alerts
alert_script_nocleanup(w, alerts_, hash_order) ==
    LET state == load_state(w)
        alert_names == KeySet(alerts_)
        IsNew(t) == t \in alert_names \ state.active_alerts
        ran == RunMappings(1, SelectSeq(hash_order, IsNew), state.alertscript_alerts, <<>>)
    IN  save_state([w EXCEPT !.fx = @ \o ran.fx],
                   [state EXCEPT !.active_alerts = alert_names,
                                 !.alertscript_alerts = ran.processed])

\* alert_script(alerts).  new_alerts is a Python set: hash_order, an order of
\* all titles, gives the order in which the loop meets its members.
alert_script(w, alerts_, hash_order) ==
    LET state == load_state(w)
        processed_alerts == state.alertscript_alerts
        active_alerts == state.active_alerts
        alert_names == KeySet(alerts_)
        IsNew(t) == t \in alert_names \ active_alerts
        new_alerts == SelectSeq(hash_order, IsNew)
        cleared_alerts == active_alerts \ alert_names
        ran == RunMappings(1, new_alerts, processed_alerts, <<>>)
    IN  IF state = JSONDecodeError THEN w   \* raised: nothing is run or written
        ELSE
        save_state([w EXCEPT !.fx = @ \o ran.fx],
                   [state EXCEPT !.active_alerts = alert_names,
                                 !.alertscript_alerts = ran.processed \ cleared_alerts])

(***************************************************************************)
(* say_alerts, say_allclear and build_tailmessage, as far as the cycle     *)
(* needs them: what they persist, which files they write and which         *)
(* commands they run.                                                      *)
(***************************************************************************)
Seg(kind, title, arg) == [kind |-> kind, title |-> title, arg |-> arg]

\* AudioSegment.silent(duration=100)
Silence100 == <<Seg("silence", NoTitle, "100")>>

\* [county["county_code"] for county in counties]
CountyCodes(occs) == [i \in DOMAIN occs |-> occs[i].county_code]

\* filtered_alerts_and_counties: title -> county codes, without the titles
\* of SayAlertBlockedEvents
FilteredAlertsAndCounties(alerts_) ==
    LET Kept(t) == ~MatchesAny(t, cfg.SayAlertBlockedEvents)
        order == SelectSeq(Keys(alerts_), Kept)
    IN  Dict([t \in Range(order) |-> CountyCodes(Get(alerts_, t))], order)

\* dict == dict whatever the order of the keys; a dict never equals a list
SameSayAlert(a, b) ==
    /\ a.kind = b.kind
    /\ a.map = b.map
    /\ a.kind = "list" => a.keys = b.keys

\* counties.index(county): the index of the first equal occurrence
FirstIndex(occs, county) ==
    CHOOSE i \in DOMAIN occs :
        occs[i] = county /\ \A j \in 1..(i - 1) : occs[j] # county

\* COUNTY_CODES.index(county_code)
CodeIndex(code) == CHOOSE i \in DOMAIN COUNTY_CODES : COUNTY_CODES[i] = code

\* the multiples clip decided on the descriptions alone
MultiplesSound_descriptions(occs) ==
    IF /\ cfg.WithMultiples
       /\ Cardinality({occs[i].description : i \in DOMAIN occs}) > 1
    THEN <<Seg("silence", NoTitle, "200"), Seg("multiples", NoTitle, "SWP_149.wav")>>
    ELSE <<>>

\* the clip SWP_149 after a title whose occurrences differ in description
\* or end time, with WithMultiples
MultiplesSound(occs) ==
    IF /\ cfg.WithMultiples
       /\ \/ Cardinality({occs[i].description : i \in DOMAIN occs}) > 1
          \/ Cardinality({occs[i].end_time_utc : i \in DOMAIN occs}) > 1
    THEN <<Seg("silence", NoTitle, "200"), Seg("multiples", NoTitle, "SWP_149.wav")>>
    ELSE <<>>

\* the loop over the occurrences of one alert, from occurrence i on: the
\* identifier clip of every configured code not yet in added, after a gap,
\* and 600 ms after the clip of the last occurrence.  Gives the sound and
\* the codes added.
RECURSIVE CountyLoop(_, _, _, _)
CountyLoop(occs, i, added, sound) ==
    IF i > Len(occs) THEN [sound |-> sound, added |-> added]
    ELSE LET county == occs[i]
             county_code == county.county_code
             word_space == IF FirstIndex(occs, county) = 1 THEN "600" ELSE "400"
         IN  IF /\ cfg.CountyWavs
                /\ county_code \in Range(COUNTY_CODES)
                /\ county_code \notin added
             THEN CountyLoop(occs, i + 1, added \cup {county_code},
                      sound \o <<Seg("silence", NoTitle, word_space),
                                 Seg("county", NoTitle, COUNTY_WAVS[CodeIndex(county_code)])>>
                            \o (IF FirstIndex(occs, county) = Len(occs)
                                THEN <<Seg("silence", NoTitle, "600")>> ELSE <<>>))
             ELSE CountyLoop(occs, i + 1, added, sound)

\* the segment of one alert in say_alerts: the separator, the title's clip,
\* the multiples clip and the identifiers, with a set of added codes of its
\* own; nothing for a filtered title or one not in ALERT_STRINGS
SayAlertSegment(item) ==
    IF MatchesAny(item[1], cfg.SayAlertBlockedEvents) THEN <<>>
    ELSE IF item[1] \notin Range(ALERT_STRINGS) THEN <<>>   \* ValueError, caught
    ELSE IF item[1] \in cfg.MissingClips THEN <<>>         \* FileNotFoundError, caught
    ELSE <<Seg("separator", NoTitle, ""), Seg("alert", item[1], "")>>
         \o MultiplesSound(item[2])
         \o CountyLoop(item[2], 1, {}, <<>>).sound

\* the titles that get a segment: filtered, and found in ALERT_STRINGS
Announced(alerts_) ==
    LET Spoken(t) == /\ ~MatchesAny(t, cfg.SayAlertBlockedEvents)
                     /\ t \in Range(ALERT_STRINGS)
                     /\ t \notin cfg.MissingClips
    IN  SelectSeq(Keys(alerts_), Spoken)

\* combined_sound of say_alerts, as exported to alert.wav
SayAlertSound(alerts_) ==
    LET intro == <<Seg("intro", NoTitle, ""), Seg("silence", NoTitle, "600"),
                   Seg("clip", NoTitle, "SWP_148.wav")>>
        body == Flatten([i \in DOMAIN alerts_ |-> SayAlertSegment(alerts_[i])])
        suffix == IF cfg.SayAlertSuffix # None
                  THEN <<Seg("silence", NoTitle, "600"),
                         Seg("suffix", NoTitle, cfg.SayAlertSuffix)>>
                  ELSE <<>>
        delay == IF cfg.AudioDelay > 0
                 THEN <<Seg("silence", NoTitle, "AUDIO_DELAY")>> ELSE <<>>
    IN  delay \o intro \o body \o suffix

\* the export of a sound: one event for each of its clips
Exported(file, sound) ==
    [i \in DOMAIN sound |-> Ev(file, sound[i].title, sound[i].kind, sound[i].arg)]

\* say_alerts that returns as soon as the playback is dispatched, without
\* the wait of lines 884-901
say_alerts_nowait(w, alerts_) ==
    LET state == load_state(w)
        filtered == FilteredAlertsAndCounties(alerts_)
    IN  IF state = JSONDecodeError THEN w
        ELSE IF SameSayAlert(filtered, state.last_sayalert) THEN w
        ELSE LET saved == save_state(w, [state EXCEPT !.last_sayalert = filtered])
                 titles == Announced(alerts_)
             IN  IF titles = <<>> THEN saved
                 ELSE [saved EXCEPT
                         !.tail = Silence100,
                         !.fx = @ \o [i \in DOMAIN titles |-> Ev("say", titles[i], "", "")]
                                  \o Exported("alert.wav", SayAlertSound(alerts_))
                                  \o <<Ev("export", NoTitle, "alert.wav", ""),
                                       Ev("export", NoTitle, "tailmessage", "silence")>>
                                  \o [n \in DOMAIN cfg.Nodes |->
                                         Ev("localplay", NoTitle, "alert", cfg.Nodes[n])]]

\* say_alerts that starts from a fresh state instead of the file's
say_alerts_fresh(w, alerts_) ==
    LET state == DefaultState
        filtered == FilteredAlertsAndCounties(alerts_)
    IN  IF SameSayAlert(filtered, state.last_sayalert) THEN w
        ELSE LET saved == save_state(w, [state EXCEPT !.last_sayalert = filtered])
                 titles == Announced(alerts_)
             IN  IF titles = <<>> THEN saved
                 ELSE [saved EXCEPT
                         !.tail = Silence100,
                         !.fx = @ \o [i \in DOMAIN titles |-> Ev("say", titles[i], "", "")]
                                  \o Exported("alert.wav", SayAlertSound(alerts_))
                                  \o <<Ev("export", NoTitle, "alert.wav", ""),
                                       Ev("export", NoTitle, "tailmessage", "silence")>>
                                  \o [n \in DOMAIN cfg.Nodes |->
                                         Ev("localplay", NoTitle, "alert", cfg.Nodes[n])]
                                  \o <<Ev("sleep", NoTitle, "", "")>>]

say_alerts(w, alerts_) ==
    LET state == load_state(w)
        filtered == FilteredAlertsAndCounties(alerts_)
    IN  IF state = JSONDecodeError THEN w   \* raised: nothing is run or written
        ELSE IF SameSayAlert(filtered, state.last_sayalert) THEN w
        ELSE LET saved == save_state(w, [state EXCEPT !.last_sayalert = filtered])
                 titles == Announced(alerts_)
             IN  IF titles = <<>> THEN saved
                 ELSE [saved EXCEPT
                         !.tail = Silence100,
                         !.fx = @ \o [i \in DOMAIN titles |-> Ev("say", titles[i], "", "")]
                                  \o Exported("alert.wav", SayAlertSound(alerts_))
                                  \o <<Ev("export", NoTitle, "alert.wav", ""),
                                       Ev("export", NoTitle, "tailmessage", "silence")>>
                                  \o [n \in DOMAIN cfg.Nodes |->
                                         Ev("localplay", NoTitle, "alert", cfg.Nodes[n])]
                                  \o <<Ev("sleep", NoTitle, "", "")>>]

say_allclear(w) ==
    LET state == load_state(w)
        saved == save_state(w, [state EXCEPT !.last_sayalert = EmptyList])
    IN  IF state = JSONDecodeError THEN w   \* raised: nothing is run or written
        ELSE
        [saved EXCEPT
            !.fx = @ \o <<Ev("export", NoTitle, "allclear.wav", "")>>
                     \o [n \in DOMAIN cfg.Nodes |->
                            Ev("localplay", NoTitle, "allclear", cfg.Nodes[n])]]

\* the segment with the separator added before the title is looked up
TailSegment_separator(item) ==
    IF MatchesAny(item[1], cfg.TailmessageBlockedEvents) THEN <<>>
    ELSE IF item[1] \notin Range(ALERT_STRINGS) \/ item[1] \in cfg.MissingClips
    THEN <<Seg("separator", NoTitle, "")>>
    ELSE <<Seg("separator", NoTitle, ""), Seg("alert", item[1], "")>>

\* the segment of the tail message filtered by the block-list of the
\* announcement
TailSegment_sayblocked(item) ==
    IF MatchesAny(item[1], cfg.SayAlertBlockedEvents) THEN <<>>
    ELSE IF item[1] \notin Range(ALERT_STRINGS) THEN <<>>
    ELSE IF item[1] \in cfg.MissingClips THEN <<>>
    ELSE <<Seg("separator", NoTitle, ""), Seg("alert", item[1], "")>>

\* the segment of one alert of the tail message: the separator and the
\* title's clip, unless the title is blocked, not in ALERT_STRINGS, or its
\* clip is missing
TailSegment(item) ==
    IF MatchesAny(item[1], cfg.TailmessageBlockedEvents) THEN <<>>
    ELSE IF item[1] \notin Range(ALERT_STRINGS) THEN <<>>   \* ValueError, caught
    ELSE IF item[1] \in cfg.MissingClips THEN <<>>         \* FileNotFoundError, caught
    ELSE <<Seg("separator", NoTitle, ""), Seg("alert", item[1], "")>>

\* the loop over the alerts of build_tailmessage, from alert i on:
\* added_counties is one set for the whole build
RECURSIVE TailLoop(_, _, _, _)
TailLoop(alerts_, i, added_counties, combined_sound) ==
    IF i > Len(alerts_) THEN combined_sound
    ELSE LET segment == TailSegment(alerts_[i])
             occs == alerts_[i][2]
             ids == IF cfg.TailmessageCounties
                    THEN CountyLoop(occs, 1, added_counties, <<>>)
                    ELSE [sound |-> <<>>, added |-> added_counties]
         IN  IF segment = <<>>
             THEN TailLoop(alerts_, i + 1, added_counties, combined_sound)
             ELSE TailLoop(alerts_, i + 1, ids.added,
                           combined_sound \o segment \o MultiplesSound(occs) \o ids.sound)

\* build_tailmessage that applies the suffix and the pad independently, as
\* say_alerts does
build_tailmessage_both(w, alerts_) ==
    IF alerts_ = <<>>
    THEN Log([w EXCEPT !.tail = Silence100], Ev("export", NoTitle, "tailmessage", "silence"))
    ELSE LET combined == TailLoop(alerts_, 1, {}, <<>>)
             suffixed == IF cfg.TailmessageSuffix # None
                         THEN combined \o <<Seg("silence", NoTitle, "1000"),
                                            Seg("suffix", NoTitle, cfg.TailmessageSuffix)>>
                         ELSE combined
             final == IF cfg.AudioDelay > 0
                      THEN <<Seg("silence", NoTitle, "AUDIO_DELAY")>> \o suffixed
                      ELSE suffixed
         IN  Log([w EXCEPT !.tail = final], Ev("export", NoTitle, "tailmessage", "alerts"))

\* build_tailmessage without the early return of lines 980-985: an empty
\* collection goes through the loop and the suffix or pad like any other
build_tailmessage_noreturn(w, alerts_) ==
    LET combined == TailLoop(alerts_, 1, {}, <<>>)
        final == IF cfg.TailmessageSuffix # None
                 THEN combined \o <<Seg("silence", NoTitle, "1000"),
                                    Seg("suffix", NoTitle, cfg.TailmessageSuffix)>>
                 ELSE IF cfg.AudioDelay > 0
                 THEN <<Seg("silence", NoTitle, "AUDIO_DELAY")>> \o combined
                 ELSE combined
    IN  Log([w EXCEPT !.tail = final], Ev("export", NoTitle, "tailmessage", "alerts"))

\* build_tailmessage(alerts).  combined_sound.empty() builds a new, empty
\* segment, which is false: the branch of line 1085 is never taken.
build_tailmessage(w, alerts_) ==
    IF alerts_ = <<>>
    THEN Log([w EXCEPT !.tail = Silence100], Ev("export", NoTitle, "tailmessage", "silence"))
    ELSE LET combined == TailLoop(alerts_, 1, {}, <<>>)
             final == IF cfg.TailmessageSuffix # None
                      THEN combined \o <<Seg("silence", NoTitle, "1000"),
                                         Seg("suffix", NoTitle, cfg.TailmessageSuffix)>>
                      ELSE IF cfg.AudioDelay > 0
                      THEN <<Seg("silence", NoTitle, "AUDIO_DELAY")>> \o combined
                      ELSE combined
         IN  Log([w EXCEPT !.tail = final], Ev("export", NoTitle, "tailmessage", "alerts"))

(***************************************************************************)
(* main: one poll cycle.                                                   *)
(***************************************************************************)
\* an exception nothing catches ends main: it is the last entry of the log,
\* and the steps after it do not run
Raise(w, exc) == Log(w, Ev("raise", NoTitle, exc, ""))
Raised(w) == w.fx # <<>> /\ w.fx[Len(w.fx)].kind = "raise"

\* the world after a call of change_ct or change_id that returned r
Switched(r) ==
    IF r.ret \in {"JSONDecodeError", "KeyError"} THEN Raise(r.w, r.ret) ELSE r.w

\* change_ct_id_helper that switches to WX and never back to NORMAL
change_ct_id_helper_oneway(w, alerts_, specified_alerts, auto_change_enabled, alert_type) ==
    IF ~auto_change_enabled THEN w
    ELSE IF \E i \in DOMAIN alerts_ : alerts_[i][1] \in Range(specified_alerts)
         THEN IF alert_type = "CT" THEN Switched(change_ct(w, "WX"))
              ELSE Switched(change_id(w, "WX"))
         ELSE w

\* change_ct_id_helper: WX when a title of alerts is one of specified_alerts,
\* NORMAL otherwise
change_ct_id_helper(w, alerts_, specified_alerts, auto_change_enabled, alert_type) ==
    IF ~auto_change_enabled THEN w
    ELSE LET IsSpecified(t) == t \in Range(specified_alerts)
             intersecting_alerts == SelectSeq(Keys(alerts_), IsSpecified)
         IN  IF intersecting_alerts # <<>>
             THEN IF alert_type = "CT" THEN Switched(change_ct(w, "WX"))
                  ELSE Switched(change_id(w, "WX"))
             ELSE IF alert_type = "CT" THEN Switched(change_ct(w, "NORMAL"))
                  ELSE Switched(change_id(w, "NORMAL"))

\* lines 1516-1527: the first run, taken whenever the data file is absent
first_run(w) ==
    IF DataFileExists(w) THEN w
    ELSE LET NormalCT(v) == IF cfg.EnableCT THEN Switched(change_ct(v, "NORMAL")) ELSE v
             NormalID(v) == IF Raised(v) THEN v
                            ELSE IF cfg.EnableID THEN Switched(change_id(v, "NORMAL")) ELSE v
             EmptyTail(v) == IF Raised(v) THEN v
                             ELSE IF cfg.EnableTail THEN build_tailmessage(v, NoColl) ELSE v
         IN  EmptyTail(NormalID(NormalCT(w)))

\* {alert: alerts[alert] for alert in added_alerts}
Restrict(alerts_, titles) == [i \in DOMAIN titles |-> <<titles[i], Get(alerts_, titles[i])>>]

\* whether alerts with changed counties are announced
SayChanged == cfg.SayAlertsChanged /\ cfg.CountyWavs /\ Len(COUNTY_CODES) > 1

\* the announcement of the whole collection whatever SayAlertAll says
say_added_whole(w, alerts_, d) ==
    IF ~cfg.SayAlert THEN w
    ELSE say_alerts(w, sort_alerts(alerts_))

\* lines 1681-1703
say_added(w, alerts_, d) ==
    IF ~cfg.SayAlert THEN w
    ELSE LET alerts_to_say ==
                 IF cfg.SayAlertAll THEN alerts_
                 ELSE Restrict(alerts_, d.added)
                      \o (IF d.changed # <<>> /\ SayChanged THEN d.changed ELSE <<>>)
         IN  say_alerts(w, sort_alerts(alerts_to_say))

\* lines 1653-1712: the fan-out after the save
fan_out(w, alerts_, d, hash_order) ==
    IF d.added # <<>> \/ d.removed # <<>>
    THEN LET Supermon(v) == IF cfg.SupermonCompat
                            THEN Log(v, Ev("write", NoTitle, "warnings.txt", "")) ELSE v
             Tone(v) == change_ct_id_helper(v, alerts_, cfg.CTAlerts, cfg.EnableCT, "CT")
             Ident(v) == IF Raised(v) THEN v
                         ELSE change_ct_id_helper(v, alerts_, cfg.IDAlerts, cfg.EnableID, "ID")
             Script(v) == IF Raised(v) THEN v
                          ELSE IF cfg.AlertScript THEN alert_script(v, alerts_, hash_order)
                          ELSE v
             Say(v) == IF Raised(v) THEN v ELSE say_added(v, alerts_, d)
         IN  Say(Script(Ident(Tone(Supermon(w)))))
    ELSE IF d.changed # <<>> /\ SayChanged
    THEN say_alerts(w, sort_alerts(d.changed))
    ELSE w

\* process_changes that says the all-clear whenever a title was removed
process_changes_removed(w, state, alerts_, d, hash_order) ==
    LET AllClear(v) == IF d.removed # <<>> /\ cfg.SayAllClear THEN say_allclear(v) ELSE v
        TailMessage(v) == IF Raised(v) THEN v
                          ELSE IF cfg.EnableTail THEN build_tailmessage(v, alerts_) ELSE v
        Pushover(v) == IF Raised(v) THEN v
                       ELSE IF cfg.Pushover THEN Log(v, Ev("pushover", NoTitle, "", "")) ELSE v
    IN  Pushover(TailMessage(fan_out(
            AllClear(save_state(w, [state EXCEPT !.last_alerts = alerts_])),
            alerts_, d, hash_order)))

\* lines 1638-1728: what main does once something was added, removed or
\* changed
process_changes(w, state, alerts_, d, hash_order) ==
    LET AllClear(v) == IF alerts_ = <<>> /\ cfg.SayAllClear THEN say_allclear(v) ELSE v
        TailMessage(v) == IF Raised(v) THEN v
                          ELSE IF cfg.EnableTail THEN build_tailmessage(v, alerts_) ELSE v
        Pushover(v) == IF Raised(v) THEN v
                       ELSE IF cfg.Pushover THEN Log(v, Ev("pushover", NoTitle, "", "")) ELSE v
    IN  Pushover(TailMessage(fan_out(
            AllClear(save_state(w, [state EXCEPT !.last_alerts = alerts_])),
            alerts_, d, hash_order)))

\* main(): feed is what the fetch of each zone answers, current_time the
\* clock.  The result is the world after the cycle, how the cycle ended, the
\* collection of get_alerts and the diff.
main(w, feed, current_time, hash_order) ==
    LET Processed(w1, got, d) ==
            [w |-> w1, outcome |-> IF Raised(w1) THEN "raised" ELSE "done",
             alerts |-> got.alerts, diff |-> d]
        Compared(w0, state, got, d) ==
            IF got.raised
            THEN [w |-> w0, outcome |-> "raised", alerts |-> got.alerts, diff |-> NoDiff]
            ELSE IF d.added # <<>> \/ d.removed # <<>> \/ d.changed # <<>>
            THEN Processed(process_changes(w0, state, got.alerts, d, hash_order), got, d)
            ELSE [w |-> w0, outcome |-> "done", alerts |-> got.alerts, diff |-> d]
        Fetched_(w0, state, got) ==
            Compared(w0, state, got, main_diff(state.last_alerts, got.alerts))
        Loaded(w0, state) ==
            IF Raised(w0) \/ state = JSONDecodeError
            THEN [w |-> w0, outcome |-> "raised", alerts |-> NoColl, diff |-> NoDiff]
            ELSE Fetched_(w0, state, get_alerts(w0, feed, current_time))
        Started(w0) == Loaded(w0, load_state(w0))
    IN  Started(first_run(w))

(***************************************************************************)
(* The variables as a world, and the values of the variables a            *)
(* specification does not use.                                            *)
(***************************************************************************)
\* the world of the variables, with an empty log
Now0 == World(dataFile, rptCT1, rptCT2, rptID, tailFile, <<>>)

SetWorld(w) ==
    /\ dataFile' = w.data
    /\ rptCT1' = w.rpt_ct1
    /\ rptCT2' = w.rpt_ct2
    /\ rptID' = w.rpt_id
    /\ tailFile' = w.tail
    /\ effects' = w.fx

\* a fresh installation: no state file, the slots as installed
WorldFresh ==
    /\ dataFile = <<>>
    /\ rptCT1 = "installed"
    /\ rptCT2 = "installed"
    /\ rptID = "installed"
    /\ tailFile = <<Seg("installed", NoTitle, "")>>
    /\ effects = <<>>

DiffIdle == dOld = NoColl /\ dNew = NoColl /\ dRes = NoDiff /\ dPc = "off"

SortIdle ==
    sIn = NoColl /\ sOut = NoColl /\ sOut2 = NoColl /\ sGot = NoColl /\ sPc = "off"

ToneIdle == calls = <<>>

UnitIdle == args = <<>> /\ result = <<>> /\ pc = "off"

CycleIdle ==
    cfg = ConfigFull /\ now = 0 /\ outcome = "off" /\ fetched = NoColl /\ fired = <<>>

(***************************************************************************)
(* SpecSort: the sort applied to every small collection.                   *)
(***************************************************************************)
SortTitles == {TornadoWarning, FloodWarning, FloodWatch, TestTitle}

\* the occurrence lists of the sort's inputs: severities 3 and 4 meet under
\* one title, and differ between titles of one last word
SortOccs ==
    { <<Occ(<<"A">>, 4, "d1", 2)>>,
      <<Occ(<<"A">>, 3, "d1", 2)>>,
      <<Occ(<<"A">>, 3, "d1", 2), Occ(<<"B">>, 4, "d2", 3)>> }

RECURSIVE Collections(_, _)
\* the collections whose key order is `titles`, occurrences drawn from occs
Collections(titles, occs) ==
    IF titles = <<>> THEN {<<>>}
    ELSE {<<<<Head(titles), o>>>> \o rest :
              o \in occs, rest \in Collections(Tail(titles), occs)}

SortInputs ==
    UNION {Collections(ts, SortOccs) : ts \in DistinctSeqs(SortTitles, MaxSortTitles)}

SortInit ==
    /\ sIn \in SortInputs
    /\ sOut = NoColl
    /\ sOut2 = NoColl
    /\ sGot = NoColl
    /\ sPc = "input"
    /\ WorldFresh
    /\ ToneIdle
    /\ DiffIdle
    /\ CycleIdle
    /\ UnitIdle

CallSortAlerts ==
    /\ sPc = "input"
    /\ ~SortRaises(sIn)
    /\ sOut' = sort_alerts(sIn)
    /\ sGot' = get_alerts_sort(sIn)
    /\ sPc' = "sorted"
    /\ UNCHANGED <<sIn, sOut2, worldVars, calls, diffVars, cycleVars, unitVars>>

CallSortAlertsAgain ==
    /\ sPc = "sorted"
    /\ sOut2' = sort_alerts(sOut)
    /\ sPc' = "resorted"
    /\ UNCHANGED <<sIn, sOut, sGot, worldVars, calls, diffVars, cycleVars, unitVars>>

SortNext == CallSortAlerts \/ CallSortAlertsAgain

SpecSort == SortInit /\ [][SortNext]_vars

(***************************************************************************)
(* SpecTone: change_ct and change_id called in any order, with any target, *)
(* from no state file or from a state file left by earlier runs.           *)
(***************************************************************************)
Targets == {"NORMAL", "WX"}

\* what the slots hold once the switch stands at cur
SlotCT1(cur) == CASE cur = "NORMAL" -> "CT1" [] cur = "WX" -> "WXCT" [] OTHER -> "installed"
SlotCT2(cur) == CASE cur = "NORMAL" -> "CT2" [] cur = "WX" -> "WXCT" [] OTHER -> "installed"
SlotID(cur) == CASE cur = "NORMAL" -> "NormalID" [] cur = "WX" -> "WXID" [] OTHER -> "installed"

CountKind(fx, kind) == Cardinality({i \in DOMAIN fx : fx[i].kind = kind})

\* the record of one call: what stood before, what it returned and did
CallRecord(fn, arg, before, r) ==
    [fn |-> fn, arg |-> arg, before |-> before, ret |-> r.ret,
     copies |-> CountKind(r.w.fx, "copyfile"),
     saved |-> CountKind(r.w.fx, "save_state") > 0]

LastTwo(s) == IF Len(s) <= 2 THEN s ELSE SubSeq(s, Len(s) - 1, Len(s))

ToneInit ==
    /\ \/ dataFile = <<>> /\ rptCT1 = "installed" /\ rptCT2 = "installed"
          /\ rptID = "installed"
       \/ \E c \in Targets \cup {None}, i \in Targets \cup {None} :
              /\ dataFile = <<[DefaultState EXCEPT !.ct = c, !.id = i]>>
              /\ rptCT1 = SlotCT1(c)
              /\ rptCT2 = SlotCT2(c)
              /\ rptID = SlotID(i)
    /\ tailFile = <<Seg("installed", NoTitle, "")>>
    /\ effects = <<>>
    /\ calls = <<>>
    /\ SortIdle
    /\ DiffIdle
    /\ CycleIdle
    /\ UnitIdle

CallChangeCT ==
    \E ct \in Targets :
        LET r == change_ct(Now0, ct)
        IN  /\ SetWorld(r.w)
            /\ calls' = LastTwo(Append(calls, CallRecord("change_ct", ct, load_state(Now0).ct, r)))
            /\ UNCHANGED <<sortVars, diffVars, cycleVars, unitVars>>

CallChangeID ==
    \E id \in Targets :
        LET r == change_id(Now0, id)
        IN  /\ SetWorld(r.w)
            /\ calls' = LastTwo(Append(calls, CallRecord("change_id", id, load_state(Now0).id, r)))
            /\ UNCHANGED <<sortVars, diffVars, cycleVars, unitVars>>

ToneNext == CallChangeCT \/ CallChangeID

SpecTone == ToneInit /\ [][ToneNext]_vars

(***************************************************************************)
(* SpecDiff: the diff of every pair of small collections.                  *)
(***************************************************************************)
DiffTitles == {TornadoWarning, FloodWatch}

\* occurrence lists that differ in zones, and ones that differ only in
\* multiplicity, order, description, severity or end time
DiffOccs ==
    { <<Occ(ZoneA, 4, "d1", 2)>>,
      <<Occ(ZoneA, 3, "d2", 3)>>,
      <<Occ(ZoneA, 4, "d1", 2), Occ(ZoneA, 4, "d1", 2)>>,
      <<Occ(ZoneB, 4, "d1", 2)>>,
      <<Occ(ZoneA, 4, "d1", 2), Occ(ZoneB, 4, "d1", 2)>>,
      <<Occ(ZoneB, 4, "d1", 2), Occ(ZoneA, 4, "d1", 2)>>,
      <<Occ(ZoneBraced, 4, "d1", 2), Occ(ZoneB, 4, "d1", 2)>> }

DiffInputs ==
    UNION {Collections(ts, DiffOccs) : ts \in DistinctSeqs(DiffTitles, MaxDiffTitles)}

DiffInit ==
    /\ dOld \in DiffInputs
    /\ dNew \in DiffInputs
    /\ dRes = NoDiff
    /\ dPc = "input"
    /\ SortIdle
    /\ WorldFresh
    /\ ToneIdle
    /\ CycleIdle
    /\ UnitIdle

CallMainDiff ==
    /\ dPc = "input"
    /\ dRes' = main_diff(dOld, dNew)
    /\ dPc' = "done"
    /\ UNCHANGED <<dOld, dNew, sortVars, worldVars, calls, cycleVars, unitVars>>

DiffNext == CallMainDiff

SpecDiff == DiffInit /\ [][DiffNext]_vars

(***************************************************************************)
(* Spec: poll cycles, one after the other, from a fresh installation.      *)
(* Every cycle reads the clock, which does not go back, and meets a feed:  *)
(* for every zone the fetch fails or returns some records.                 *)
(***************************************************************************)
CycleTitles == {TornadoWarning, FloodWatch}

\* a tornado warning with the API's severity, in force until 3, and a
\* flood watch without it, in force until 1
FeatTornado ==
    Feature(TornadoWarning, <<"Extreme">>, "d1", <<0, 0>>, <<3, 0>>, <<>>, <<3, 0>>)
FeatFlood ==
    Feature(FloodWatch, <<>>, "d1", <<0, 0>>, <<1, 0>>, <<>>, <<1, 0>>)

CycleFeatures == {FeatTornado, FeatFlood}

RECURSIVE SeqsUpTo(_, _)
\* the sequences over S of length at most n
SeqsUpTo(S, n) ==
    IF n = 0 THEN {<<>>}
    ELSE LET shorter == SeqsUpTo(S, n - 1)
         IN  shorter \cup {Append(q, x) : q \in shorter, x \in S}

FetchFailed == [ok |-> FALSE, features |-> <<>>]

ZoneResponses ==
    {FetchFailed} \cup {[ok |-> TRUE, features |-> fs] : fs \in SeqsUpTo(CycleFeatures, MaxFeatures)}

Feeds == [DOMAIN COUNTY_CODES -> ZoneResponses]

\* the orders in which a Python set of titles can be iterated
HashOrders == {q \in DistinctSeqs(CycleTitles, Cardinality(CycleTitles)) :
                   Len(q) = Cardinality(CycleTitles)}

MappingIds == 1..Len(Mappings)

\* how often the action of mapping m ran for title t in the log fx: the
\* highest count over the commands and nodes
Runs(fx, m, t) ==
    LET Same(i, j) == fx[i].a = fx[j].a /\ fx[i].b = fx[j].b
        Of(i) == fx[i].kind \in {"bash", "dtmf"} /\ fx[i].m = m /\ fx[i].title = t
        counts == {Cardinality({j \in DOMAIN fx : Of(j) /\ Same(i, j)}) :
                       i \in {k \in DOMAIN fx : Of(k)}}
    IN  IF counts = {} THEN 0 ELSE CHOOSE c \in counts : \A x \in counts : x <= c

\* the count goes back to 0 when the title is not in the cycle's collection
FiredAfter(r) ==
    IF r.outcome = "raised" THEN fired
    ELSE [k \in MappingIds \X CycleTitles |->
             IF ~HasKey(r.alerts, k[2]) THEN 0
             ELSE Min2(fired[k] + Runs(r.w.fx, k[1], k[2]), MaxFired)]

Init ==
    /\ cfg \in Configs
    /\ now = 0
    /\ outcome = "init"
    /\ fetched = NoColl
    /\ fired = [k \in MappingIds \X CycleTitles |-> 0]
    /\ WorldFresh
    /\ SortIdle
    /\ ToneIdle
    /\ DiffIdle
    /\ UnitIdle

Cycle ==
    \E feed \in Feeds, t \in now..MaxNow, hash_order \in HashOrders :
        LET r == main(Now0, feed, t, hash_order)
        IN  /\ SetWorld(r.w)
            /\ now' = t
            /\ outcome' = r.outcome
            /\ fetched' = r.alerts
            /\ fired' = FiredAfter(r)
            /\ UNCHANGED <<sortVars, calls, diffVars, cfg, unitVars>>

Next == Cycle

Spec == Init /\ [][Next]_vars

(***************************************************************************)
(* SpecLoad: load_state and its callers on every kind of state file: no    *)
(* file, a file that is not JSON, and a JSON object with any of the keys   *)
(* missing.                                                                *)
(***************************************************************************)
\* a state file without the keys of absent
StateFileWith(absent) ==
    [ct |-> IF "ct" \in absent THEN None ELSE "NORMAL",
     id |-> IF "id" \in absent THEN None ELSE "WX",
     alertscript_alerts |-> IF "alertscript_alerts" \in absent THEN {} ELSE {TornadoWarning},
     last_alerts |-> IF "last_alerts" \in absent THEN NoColl
                     ELSE <<<<TornadoWarning, <<Occ(ZoneA, 4, "d1", 3)>>>>>>,
     last_sayalert |-> IF "last_sayalert" \in absent THEN EmptyList
                       ELSE List(<<TornadoWarning>>),
     active_alerts |-> IF "active_alerts" \in absent THEN {} ELSE {TornadoWarning},
     absent_keys |-> absent]

StateFiles ==
    {<<>>, <<Unparseable>>} \cup {<<StateFileWith(absent)>> : absent \in SUBSET StateKeys}

LoadCalls ==
    {[fn |-> f, arg |-> None] : f \in {"load_state", "alert_script", "say_alerts"}}
    \cup {[fn |-> f, arg |-> t] : f \in {"change_ct", "change_id"}, t \in {"NORMAL", "WX"}}

\* a flood watch in zone B, current when the callers are called
LoadAlerts == <<<<FloodWatch, <<Occ(ZoneB, 3, "d1", 3)>>>>>>

LoadInit ==
    /\ dataFile \in StateFiles
    /\ rptCT1 = "installed" /\ rptCT2 = "installed" /\ rptID = "installed"
    /\ tailFile = <<Seg("installed", NoTitle, "")>>
    /\ effects = <<>>
    /\ args \in LoadCalls
    /\ result = <<>>
    /\ pc = "ready"
    /\ SortIdle
    /\ ToneIdle
    /\ DiffIdle
    /\ CycleIdle

\* what a call gave: the exception that ended it or None, and the state
\* load_state returned to it
Returned(state) ==
    IF state = JSONDecodeError
    THEN [exc |-> "JSONDecodeError", state |-> DefaultState]
    ELSE [exc |-> None, state |-> state]

LoadCallLoadState ==
    /\ pc = "ready"
    /\ args.fn = "load_state"
    /\ result' = Returned(load_state(Now0))
    /\ pc' = "called"
    /\ UNCHANGED <<args, sortVars, worldVars, calls, diffVars, cycleVars>>

LoadCallSwitch ==
    /\ pc = "ready"
    /\ args.fn \in {"change_ct", "change_id"}
    /\ LET r == IF args.fn = "change_ct" THEN change_ct(Now0, args.arg)
                ELSE change_id(Now0, args.arg)
       IN  /\ SetWorld(r.w)
           /\ result' = IF r.ret \in {"JSONDecodeError", "KeyError"}
                        THEN [exc |-> r.ret, state |-> DefaultState]
                        ELSE Returned(load_state(Now0))
    /\ pc' = "called"
    /\ UNCHANGED <<args, sortVars, calls, diffVars, cycleVars>>

LoadCallAnnouncer ==
    /\ pc = "ready"
    /\ args.fn \in {"alert_script", "say_alerts"}
    /\ SetWorld(IF args.fn = "alert_script"
                THEN alert_script(Now0, LoadAlerts, <<FloodWatch>>)
                ELSE say_alerts(Now0, LoadAlerts))
    /\ result' = Returned(load_state(Now0))
    /\ pc' = "called"
    /\ UNCHANGED <<args, sortVars, calls, diffVars, cycleVars>>

LoadNext == LoadCallLoadState \/ LoadCallSwitch \/ LoadCallAnnouncer

SpecLoad == LoadInit /\ [][LoadNext]_vars

(***************************************************************************)
(* SpecFetch: one call of get_alerts, or one cycle of main, for every      *)
(* small feed, instant, configuration and state file left by an earlier    *)
(* cycle.                                                                  *)
(***************************************************************************)
\* the global block list in use
ConfigBlocking == [ConfigFull EXCEPT !.name = "blocking", !.GlobalBlockedEvents = <<PatFloodAny>>]

\* TimeType: effective
ConfigEffective == [ConfigFull EXCEPT !.name = "effective", !.TimeType = "effective"]

FetchConfigs == {ConfigFull, ConfigBlocking, ConfigEffective}

\* a flood warning the API calls minor, with no "ends": it starts at 01:00
\* UTC (02:00 at +01:00) and expires at 3; effective from 0
FeatLater ==
    Feature(FloodWarning, <<"Minor">>, "d2", <<2, 1>>, <<>>, <<0, 0>>, <<3, 0>>)

\* a test message with a severity the table does not know and no start
FeatNoStart ==
    Feature(TestTitle, <<"Unknown">>, "d3", <<>>, <<3, 0>>, <<>>, <<3, 0>>)

\* a flood watch with no end of either kind
FeatNoEnd ==
    Feature(FloodWatch, <<"Severe">>, "d4", <<0, 0>>, <<>>, <<0, 0>>, <<>>)

FetchFeatures == {FeatTornado, FeatFlood, FeatLater, FeatNoStart, FeatNoEnd}

FetchResponses ==
    {FetchFailed} \cup {[ok |-> TRUE, features |-> fs] : fs \in SeqsUpTo(FetchFeatures, MaxFetchFeatures)}

FetchFeeds == [DOMAIN COUNTY_CODES -> FetchResponses]

\* last_alerts as earlier cycles left it: a flood watch until 1; a tornado
\* warning until 3 in one zone and until 1 in the other, beside the watch
StoredCollections ==
    { NoColl,
      <<<<FloodWatch, <<Occ(ZoneB, 3, "d1", 1)>>>>>>,
      <<<<TornadoWarning, <<Occ(ZoneA, 4, "d1", 3), Occ(ZoneB, 4, "d1", 1)>>>>,
        <<FloodWatch, <<Occ(ZoneB, 3, "d1", 1)>>>>>> }

FetchFiles ==
    {<<>>} \cup {<<[DefaultState EXCEPT !.last_alerts = c]>> : c \in StoredCollections}

FetchInit ==
    /\ dataFile \in FetchFiles
    /\ rptCT1 = "installed" /\ rptCT2 = "installed" /\ rptID = "installed"
    /\ tailFile = <<Seg("installed", NoTitle, "")>>
    /\ effects = <<>>
    /\ cfg \in FetchConfigs
    /\ now = 0 /\ outcome = "off" /\ fetched = NoColl /\ fired = <<>>
    /\ args \in [fn : {"get_alerts", "main"}, feed : FetchFeeds, current_time : 0..MaxNow]
    /\ result = <<>>
    /\ pc = "ready"
    /\ SortIdle
    /\ ToneIdle
    /\ DiffIdle

FetchCallGetAlerts ==
    /\ pc = "ready"
    /\ args.fn = "get_alerts"
    /\ result' = get_alerts(Now0, args.feed, args.current_time)
    /\ pc' = "called"
    /\ UNCHANGED <<args, sortVars, worldVars, calls, diffVars, cycleVars>>

FetchCallMain ==
    /\ pc = "ready"
    /\ args.fn = "main"
    /\ LET r == main(Now0, args.feed, args.current_time, <<TornadoWarning, FloodWatch>>)
       IN  /\ SetWorld(r.w)
           /\ result' = [raised |-> r.outcome = "raised", unsorted |-> NoColl,
                         alerts |-> r.alerts, requested |-> <<>>]
    /\ pc' = "called"
    /\ UNCHANGED <<args, sortVars, calls, diffVars, cycleVars>>

FetchNext == FetchCallGetAlerts \/ FetchCallMain

SpecFetch == FetchInit /\ [][FetchNext]_vars

(***************************************************************************)
(* SpecPersist: save_state of a state with a sorted last_alerts over any   *)
(* older file, followed by load_state.                                     *)
(***************************************************************************)
\* the sorted collections
PersistCollections == {sort_alerts(c) : c \in {x \in SortInputs : ~SortRaises(x)}}

\* the states handed to save_state: with or without the key "ct", and with
\* last_sayalert as say_alerts sets it
PersistStates ==
    {[DefaultState EXCEPT !.last_alerts = c,
                          !.ct = IF a = {} THEN "WX" ELSE None,
                          !.id = "NORMAL",
                          !.last_sayalert = Dict([t \in KeySet(c) |-> CountyCodes(Get(c, t))],
                                                 Keys(c)),
                          !.active_alerts = KeySet(c),
                          !.absent_keys = a] :
        c \in PersistCollections, a \in {{}, {"ct"}}}

\* the older files: none, one that is not JSON, a complete one and one
\* without "id"
OlderFiles ==
    {<<>>, <<Unparseable>>, <<StateFileWith({})>>, <<StateFileWith({"id"})>>}

PersistInit ==
    /\ dataFile \in OlderFiles
    /\ rptCT1 = "installed" /\ rptCT2 = "installed" /\ rptID = "installed"
    /\ tailFile = <<Seg("installed", NoTitle, "")>>
    /\ effects = <<>>
    /\ args \in PersistStates
    /\ result = <<>>
    /\ pc = "ready"
    /\ SortIdle
    /\ ToneIdle
    /\ DiffIdle
    /\ CycleIdle

CallSaveThenLoad ==
    /\ pc = "ready"
    /\ LET saved == save_state(Now0, args)
       IN  /\ SetWorld(saved)
           /\ result' = Returned(load_state(saved))
    /\ pc' = "called"
    /\ UNCHANGED <<args, sortVars, calls, diffVars, cycleVars>>

PersistNext == CallSaveThenLoad

SpecPersist == PersistInit /\ [][PersistNext]_vars

(***************************************************************************)
(* SpecSeverity: the loop body of get_alerts on one record in force, for   *)
(* every severity the API can send and every last word of a title.         *)
(***************************************************************************)
SeverityTitles == Range(ALERT_STRINGS)

\* the values of the API's severity field, and one it does not define
SeverityWords == {"Extreme", "Severe", "Moderate", "Minor", "Unknown", "Bogus"}

SeverityFeatures ==
    {Feature(t, sev, "d1", <<0, 0>>, <<3, 0>>, <<>>, <<3, 0>>) :
        t \in SeverityTitles, sev \in {<<>>} \cup {<<word>> : word \in SeverityWords}}

SeverityInit ==
    /\ args \in [feature : SeverityFeatures, zone : DOMAIN COUNTY_CODES]
    /\ result = <<>>
    /\ pc = "ready"
    /\ WorldFresh
    /\ SortIdle
    /\ ToneIdle
    /\ DiffIdle
    /\ CycleIdle

CallProcessFeature ==
    /\ pc = "ready"
    /\ result' = ProcessFeature(NoColl, args.feature, COUNTY_CODES[args.zone], 0)
    /\ pc' = "called"
    /\ UNCHANGED <<args, sortVars, worldVars, calls, diffVars, cycleVars>>

SeverityNext == CallProcessFeature

SpecSeverity == SeverityInit /\ [][SeverityNext]_vars

(***************************************************************************)
(* SpecScript: one call of alert_script, for every small collection, every *)
(* iteration order of the set of new titles and every state an earlier     *)
(* call can have left.                                                     *)
(***************************************************************************)
ScriptTitles == {TornadoWarning, TornadoWatch, FloodWarning}

ScriptAlerts ==
    UNION {Collections(ts, {<<Occ(ZoneA, 4, "d1", 3)>>}) :
               ts \in DistinctSeqs(ScriptTitles, MaxScriptTitles)}

\* the orders in which Python can iterate a set of these titles
ScriptOrders ==
    {q \in DistinctSeqs(ScriptTitles, Cardinality(ScriptTitles)) :
        Len(q) = Cardinality(ScriptTitles)}

\* the state files an earlier call leaves: the titles then active, and the
\* processed ones among them
ScriptFiles ==
    {<<>>} \cup
    {<<[DefaultState EXCEPT !.active_alerts = KeySet(c), !.last_alerts = c,
                            !.alertscript_alerts = q]>> :
        c \in ScriptAlerts, q \in SUBSET ScriptTitles}

ScriptInit ==
    /\ dataFile \in ScriptFiles
    /\ rptCT1 = "installed" /\ rptCT2 = "installed" /\ rptID = "installed"
    /\ tailFile = <<Seg("installed", NoTitle, "")>>
    /\ effects = <<>>
    /\ load_state(Now0).alertscript_alerts \subseteq load_state(Now0).active_alerts
    /\ cfg \in {ConfigFull, ConfigAllMode, ConfigKinds}
    /\ now = 0 /\ outcome = "off" /\ fetched = NoColl /\ fired = <<>>
    /\ args \in [alerts : ScriptAlerts, hash_order : ScriptOrders]
    /\ result = <<>>
    /\ pc = "ready"
    /\ SortIdle
    /\ ToneIdle
    /\ DiffIdle

\* the call, with the state it found kept in result
CallAlertScript ==
    /\ pc = "ready"
    /\ SetWorld(alert_script(Now0, args.alerts, args.hash_order))
    /\ result' = Returned(load_state(Now0))
    /\ pc' = "called"
    /\ UNCHANGED <<args, sortVars, calls, diffVars, cycleVars>>

ScriptNext == CallAlertScript

SpecScript == ScriptInit /\ [][ScriptNext]_vars

(***************************************************************************)
(* SpecSay: one call of say_alerts and one of build_tailmessage on every   *)
(* small collection whose alerts have occurrences in one zone, in both, or *)
(* several in the same zone, with the zone identifiers enabled in both     *)
(* modes.                                                                  *)
(***************************************************************************)
ConfigCounties ==
    [ConfigFull EXCEPT !.name = "counties", !.TailmessageCounties = TRUE,
                       !.WithMultiples = TRUE]

\* the same, with the flood titles left out of both modes
ConfigCountiesBlocked ==
    [ConfigCounties EXCEPT !.name = "counties-blocked",
                           !.SayAlertBlockedEvents = <<PatFloodAny>>,
                           !.TailmessageBlockedEvents = <<PatFloodAny>>]

\* the blocked configuration with a tail-message suffix, with an audio
\* delay, and with both
ConfigSuffix ==
    [ConfigCountiesBlocked EXCEPT !.name = "suffix", !.TailmessageSuffix = "suffix.wav"]

ConfigDelay == [ConfigCountiesBlocked EXCEPT !.name = "delay", !.AudioDelay = 500]

ConfigSuffixDelay ==
    [ConfigCountiesBlocked EXCEPT !.name = "suffix-delay",
                                  !.TailmessageSuffix = "suffix.wav", !.AudioDelay = 500]

\* the clip of the tornado warning is not installed
ConfigMissing ==
    [ConfigCounties EXCEPT !.name = "missing", !.MissingClips = {TornadoWarning}]

\* the flood titles left out of the announcement only, and of the tail
\* message only
ConfigSayBlocked ==
    [ConfigCounties EXCEPT !.name = "say-blocked",
                           !.SayAlertBlockedEvents = <<PatFloodAny>>]

ConfigTailBlocked ==
    [ConfigCounties EXCEPT !.name = "tail-blocked",
                           !.TailmessageBlockedEvents = <<PatFloodAny>>]

SayConfigs ==
    {ConfigCounties, ConfigCountiesBlocked, ConfigSuffix, ConfigDelay, ConfigSuffixDelay,
     ConfigMissing, ConfigSayBlocked, ConfigTailBlocked}

SayTitles == {TornadoWarning, FloodWarning, DustDevil}

SayOccurrences ==
    {q \in SeqsUpTo({Occ(ZoneA, 4, "d1", 3), Occ(ZoneA, 4, "d2", 3), Occ(ZoneB, 4, "d1", 3),
                     Occ(ZoneB, 4, "d1", 5)},
                    MaxSayOccurrences) : q # <<>>}

SayAlerts ==
    {c \in UNION {[1..n -> SayTitles \X SayOccurrences] : n \in 0..MaxSayTitles} :
        \A i, j \in DOMAIN c : c[i][1] = c[j][1] => i = j}

SayInit ==
    /\ WorldFresh
    /\ cfg \in SayConfigs
    /\ now = 0 /\ outcome = "off" /\ fetched = NoColl /\ fired = <<>>
    /\ args \in [alerts : SayAlerts]
    /\ result = <<>>
    /\ pc = "ready"
    /\ SortIdle
    /\ ToneIdle
    /\ DiffIdle

\* say_alerts(alerts)
CallSayAlerts ==
    /\ pc = "ready"
    /\ SetWorld(say_alerts(Now0, args.alerts))
    /\ pc' = "said"
    /\ UNCHANGED <<args, result, sortVars, calls, diffVars, cycleVars>>

\* build_tailmessage(alerts), with what say_alerts ran kept in result
CallBuildTailmessage ==
    /\ pc = "said"
    /\ SetWorld(build_tailmessage(Now0, args.alerts))
    /\ result' = effects
    /\ pc' = "built"
    /\ UNCHANGED <<args, sortVars, calls, diffVars, cycleVars>>

\* say_alerts(alerts) in a later invocation, with the same collection: the
\* state is read back from the file
CallSayAlertsAgain ==
    /\ pc = "built"
    /\ SetWorld(say_alerts(Now0, args.alerts))
    /\ pc' = "again"
    /\ UNCHANGED <<args, result, sortVars, calls, diffVars, cycleVars>>

SayNext == CallSayAlerts \/ CallBuildTailmessage \/ CallSayAlertsAgain

SpecSay == SayInit /\ [][SayNext]_vars

(***************************************************************************)
(* SpecCrash: poll cycles on a state file that holds a tornado warning and *)
(* may lack the keys "ct" and "id", so that the switches of the fan-out    *)
(* can raise.                                                              *)
(***************************************************************************)
CrashFiles == {<<StateFileWith(absent)>> : absent \in SUBSET {"ct", "id"}}

CrashInit ==
    /\ cfg \in Configs
    /\ now = 0
    /\ outcome = "init"
    /\ fetched = NoColl
    /\ fired = [k \in MappingIds \X CycleTitles |-> 0]
    /\ dataFile \in CrashFiles
    /\ rptCT1 = "installed" /\ rptCT2 = "installed" /\ rptID = "installed"
    /\ tailFile = <<Seg("installed", NoTitle, "")>>
    /\ effects = <<>>
    /\ SortIdle
    /\ ToneIdle
    /\ DiffIdle
    /\ UnitIdle

SpecCrash == CrashInit /\ [][Next]_vars

(***************************************************************************)
(* SpecAnnounce: poll cycles with the announcement of the added and        *)
(* changed alerts, of the added alerts only, and of all alerts.            *)
(***************************************************************************)
\* SayAlertsChanged: false
ConfigSayAdded == [ConfigFull EXCEPT !.name = "say-added", !.SayAlertsChanged = FALSE]

\* SayAlertAll: true
ConfigSayAll == [ConfigFull EXCEPT !.name = "say-all", !.SayAlertAll = TRUE]

AnnounceConfigs == {ConfigFull, ConfigSayAdded, ConfigSayAll}

AnnounceInit ==
    /\ cfg \in AnnounceConfigs
    /\ now = 0
    /\ outcome = "init"
    /\ fetched = NoColl
    /\ fired = [k \in MappingIds \X CycleTitles |-> 0]
    /\ WorldFresh
    /\ SortIdle
    /\ ToneIdle
    /\ DiffIdle
    /\ UnitIdle

SpecAnnounce == AnnounceInit /\ [][Next]_vars

(***************************************************************************)
(* SpecStages: poll cycles of main, stage by stage, so that the state file *)
(* is seen between the stages: the first run, the load and the fetch,      *)
(* main's save, the all-clear, the two switches, the triggers, the         *)
(* announcement and the tail message.                                      *)
(***************************************************************************)
\* the world of the variables, with the log of the cycle so far
StageWorld == World(dataFile, rptCT1, rptCT2, rptID, tailFile, effects)

\* state files left by earlier cycles: none; tone and identifier NORMAL/WX
\* with a tornado warning; the same without the key "ct"; tone WX with a
\* flood watch, of another description than the feed's, that was announced
StageFiles ==
    { <<>>,
      <<StateFileWith({})>>,
      <<StateFileWith({"ct"})>>,
      <<[StateFileWith({}) EXCEPT
            !.ct = "WX",
            !.last_alerts = <<<<FloodWatch, <<Occ(ZoneB, 2, "d0", 1)>>>>>>,
            !.last_sayalert = List(<<FloodWatch>>),
            !.alertscript_alerts = {FloodWatch},
            !.active_alerts = {FloodWatch}]>> }

StageInit ==
    /\ dataFile \in StageFiles
    /\ rptCT1 = "installed" /\ rptCT2 = "installed" /\ rptID = "installed"
    /\ tailFile = <<Seg("installed", NoTitle, "")>>
    /\ effects = <<>>
    /\ cfg \in Configs
    /\ now = 0 /\ outcome = "off" /\ fetched = NoColl /\ fired = <<>>
    /\ \E feed \in Feeds, t \in 0..MaxNow, hash_order \in HashOrders :
           args = [feed |-> feed, current_time |-> t, hash_order |-> hash_order,
                   w0 |-> StageWorld]
    /\ result = <<>>
    /\ pc = "ready"
    /\ SortIdle
    /\ ToneIdle
    /\ DiffIdle

\* the stage leaves everything but the files and the log alone
StageFrame == UNCHANGED <<args, sortVars, calls, diffVars, cycleVars>>

\* lines 1516-1527
StageFirstRun ==
    /\ pc = "ready"
    /\ SetWorld(first_run(StageWorld))
    /\ pc' = "started"
    /\ UNCHANGED result
    /\ StageFrame

\* lines 1530-1636: the load, the fetch and the comparison; the cycle ends
\* here when the fetch raised or nothing has changed
StageLoad ==
    /\ pc = "started"
    /\ ~Raised(StageWorld)
    /\ LET state == load_state(StageWorld)
           got == get_alerts(StageWorld, args.feed, args.current_time)
           d == main_diff(state.last_alerts, got.alerts)
       IN  /\ result' = [state |-> state, alerts |-> got.alerts, d |-> d,
                         raised |-> got.raised]
           /\ pc' = IF got.raised \/ (d.added = <<>> /\ d.removed = <<>> /\ d.changed = <<>>)
                    THEN "end" ELSE "loaded"
    /\ UNCHANGED worldVars
    /\ StageFrame

\* lines 1640-1641
StageSave ==
    /\ pc = "loaded"
    /\ SetWorld(save_state(StageWorld, [result.state EXCEPT !.last_alerts = result.alerts]))
    /\ pc' = "saved"
    /\ UNCHANGED result
    /\ StageFrame

\* lines 1644-1650; without a title added or removed the next stage is the
\* announcement of the changed alerts
StageAllClear ==
    /\ pc = "saved"
    /\ SetWorld(IF result.alerts = <<>> /\ cfg.SayAllClear
                THEN say_allclear(StageWorld) ELSE StageWorld)
    /\ pc' = IF result.d.added # <<>> \/ result.d.removed # <<>> THEN "cleared" ELSE "scripted"
    /\ UNCHANGED result
    /\ StageFrame

\* lines 1655-1666: the titles for Supermon and the tone
StageTone ==
    /\ pc = "cleared"
    /\ SetWorld(change_ct_id_helper(
           IF cfg.SupermonCompat
           THEN Log(StageWorld, Ev("write", NoTitle, "warnings.txt", "")) ELSE StageWorld,
           result.alerts, cfg.CTAlerts, cfg.EnableCT, "CT"))
    /\ pc' = "toned"
    /\ UNCHANGED result
    /\ StageFrame

\* lines 1667-1674
StageIdent ==
    /\ pc = "toned"
    /\ ~Raised(StageWorld)
    /\ SetWorld(change_ct_id_helper(StageWorld, result.alerts, cfg.IDAlerts, cfg.EnableID, "ID"))
    /\ pc' = "ident"
    /\ UNCHANGED result
    /\ StageFrame

\* lines 1677-1678
StageScript ==
    /\ pc = "ident"
    /\ ~Raised(StageWorld)
    /\ SetWorld(IF cfg.AlertScript
                THEN alert_script(StageWorld, result.alerts, args.hash_order)
                ELSE StageWorld)
    /\ pc' = "scripted"
    /\ UNCHANGED result
    /\ StageFrame

\* lines 1681-1703, or lines 1706-1712 without a title added or removed
StageSay ==
    /\ pc = "scripted"
    /\ ~Raised(StageWorld)
    /\ SetWorld(IF result.d.added # <<>> \/ result.d.removed # <<>>
                THEN say_added(StageWorld, result.alerts, result.d)
                ELSE IF result.d.changed # <<>> /\ SayChanged
                THEN say_alerts(StageWorld, sort_alerts(result.d.changed))
                ELSE StageWorld)
    /\ pc' = "said"
    /\ UNCHANGED result
    /\ StageFrame

\* lines 1715-1728
StageTail ==
    /\ pc = "said"
    /\ SetWorld(LET built == IF cfg.EnableTail
                             THEN build_tailmessage(StageWorld, result.alerts)
                             ELSE StageWorld
                IN  IF cfg.Pushover THEN Log(built, Ev("pushover", NoTitle, "", ""))
                    ELSE built)
    /\ pc' = "end"
    /\ UNCHANGED result
    /\ StageFrame

\* an exception of a switch ends the cycle
StageRaised ==
    /\ pc \in {"started", "toned", "ident", "scripted"}
    /\ Raised(StageWorld)
    /\ pc' = "end"
    /\ UNCHANGED <<worldVars, result>>
    /\ StageFrame

\* the next invocation: a new feed, the clock not before the last cycle's
StageAgain ==
    /\ pc = "end"
    /\ \E feed \in Feeds, t \in args.current_time..MaxNow, hash_order \in HashOrders :
           args' = [feed |-> feed, current_time |-> t, hash_order |-> hash_order,
                    w0 |-> [StageWorld EXCEPT !.fx = <<>>]]
    /\ effects' = <<>>
    /\ result' = <<>>
    /\ pc' = "ready"
    /\ UNCHANGED <<dataFile, rptCT1, rptCT2, rptID, tailFile, sortVars, calls, diffVars,
                   cycleVars>>

StageNext ==
    \/ StageAgain
    \/ StageFirstRun
    \/ StageLoad
    \/ StageSave
    \/ StageAllClear
    \/ StageTone
    \/ StageIdent
    \/ StageScript
    \/ StageSay
    \/ StageTail
    \/ StageRaised

SpecStages == StageInit /\ [][StageNext]_vars

(***************************************************************************)
(* Claims about the severity sort (checked under SpecSort).                *)
(***************************************************************************)
IndexOf(d, k) == CHOOSE j \in DOMAIN d : d[j][1] = k

\* out holds min(len, MAX_ALERTS) items of inp, in non-increasing key order,
\* and no item of inp left out has a greater key than an item kept
IsTopN(inp, out) ==
    /\ Len(out) <= MAX_ALERTS
    /\ Len(out) = Min2(Len(inp), MAX_ALERTS)
    /\ NoDup(Keys(out))
    /\ \A i \in DOMAIN out : out[i] \in Range(inp)
    /\ \A i, j \in DOMAIN out : i < j => ~KeyLess(SortKey(out[i]), SortKey(out[j]))
    /\ \A x \in Range(inp) \ Range(out) :
           \A i \in DOMAIN out : ~KeyLess(SortKey(out[i]), SortKey(x))

\* C7: the collection returned by sort_alerts, and by the sort that ends
\* get_alerts, has at most MAX_ALERTS titles and is the top MAX_ALERTS of
\* the input by descending (max severity, word severity) key.
C7_Truncation ==
    sPc # "input" => IsTopN(sIn, sOut) /\ IsTopN(sIn, sGot)

\* the input was longer than MAX_ALERTS and a title of a smaller key than
\* every kept title was dropped
C7_Witness ==
    /\ sPc = "sorted"
    /\ Len(sIn) > MAX_ALERTS
    /\ Len(sOut) = MAX_ALERTS
    /\ \E x \in Range(sIn) \ Range(sOut) :
           \A i \in DOMAIN sOut : KeyLess(SortKey(x), SortKey(sOut[i]))

\* titles of equal keys keep the relative order they had in inp
IsStable(inp, out) ==
    \A i, j \in DOMAIN out :
        (i < j /\ SortKey(out[i]) = SortKey(out[j]))
            => IndexOf(inp, out[i][1]) < IndexOf(inp, out[j][1])

\* C8: in the output of the severity sort, two titles with equal keys appear
\* in the relative order of the input, although the sort is descending.
C8_Stable ==
    sPc # "input" => IsStable(sIn, sOut) /\ IsStable(sIn, sGot)

\* two titles of equal keys were moved in front of a title that preceded
\* them in the input
C8_Witness ==
    /\ sPc = "sorted"
    /\ \E i, j \in DOMAIN sOut :
           /\ i < j
           /\ SortKey(sOut[i]) = SortKey(sOut[j])
           /\ \E k \in DOMAIN sIn :
                  /\ k < IndexOf(sIn, sOut[i][1])
                  /\ KeyLess(SortKey(sIn[k]), SortKey(sOut[i]))

\* C9: sort_alerts(sort_alerts(c)) = sort_alerts(c): the same titles, the
\* same occurrences, the same iteration order.
C9_Idempotent ==
    sPc = "resorted" => sOut2 = sOut

\* the first sort reordered and truncated its input, which held equal keys
C9_Witness ==
    /\ sPc = "resorted"
    /\ Len(sIn) > Len(sOut)
    /\ sOut # Take(sIn, MAX_ALERTS)
    /\ \E i, j \in DOMAIN sOut : i # j /\ SortKey(sOut[i]) = SortKey(sOut[j])

(***************************************************************************)
(* Claims about the two switches (checked under SpecTone).                 *)
(***************************************************************************)
\* the last two calls were the same transition(X) of the same switch
SameCallTwice ==
    /\ Len(calls) = 2
    /\ calls[1].fn = calls[2].fn
    /\ calls[1].arg = calls[2].arg

\* the number of asset copies of one activation
Assets(fn) == IF fn = "change_ct" THEN 2 ELSE 1

Activated(c) == c.copies = Assets(c.fn) /\ c.saved /\ c.ret = "True"
NoOp(c) == c.copies = 0 /\ ~c.saved /\ c.ret = "False"

\* what the state file holds for the switch of call c
Persisted(c) ==
    IF c.fn = "change_ct" THEN load_state(Now0).ct ELSE load_state(Now0).id

\* C3 as stated: transition(X) twice in a row copies exactly once: the
\* first call copies, persists and returns True, the second is a no-op
\* returning False.
C3_Original ==
    SameCallTwice => Activated(calls[1]) /\ NoOp(calls[2])

\* C3 as amended: the second call is a no-op returning False; the first call
\* activates (copies, persists current = X, returns True) exactly when the
\* persisted current differed from X before it, and is a no-op otherwise.
C3_Amended ==
    SameCallTwice =>
        /\ NoOp(calls[2])
        /\ calls[1].before # calls[1].arg => Activated(calls[1])
        /\ calls[1].before = calls[1].arg => NoOp(calls[1])
        /\ Persisted(calls[2]) = calls[2].arg
        /\ calls[2].fn = "change_ct" =>
               rptCT1 = SlotCT1(calls[2].arg) /\ rptCT2 = SlotCT2(calls[2].arg)
        /\ calls[2].fn = "change_id" => rptID = SlotID(calls[2].arg)

\* transition(X) twice from a switch that stood elsewhere, for each switch
C3_Witness ==
    /\ SameCallTwice
    /\ calls[1].fn = "change_ct"
    /\ calls[1].before = "NORMAL"
    /\ calls[1].arg = "WX"
    /\ Activated(calls[1])
    /\ NoOp(calls[2])

(***************************************************************************)
(* Claims about the diff (checked under SpecDiff).                         *)
(***************************************************************************)
\* C5: the added and the removed titles are disjoint, and every title
\* reported as changed is in both collections, so that no title is both
\* added and changed, or both removed and changed.
C5_DiffCorrect ==
    dPc = "done" =>
        /\ Range(dRes.added) \cap Range(dRes.removed) = {}
        /\ KeySet(dRes.changed) \subseteq KeySet(dOld) \cap KeySet(dNew)
        /\ KeySet(dRes.changed) \cap Range(dRes.added) = {}
        /\ KeySet(dRes.changed) \cap Range(dRes.removed) = {}
        /\ KeySet(dRes.details) = KeySet(dRes.changed)

\* one title is new and another, of both collections, changed its zones
C5_Witness ==
    /\ dPc = "done"
    /\ dRes.added # <<>>
    /\ dRes.changed # <<>>
    /\ dRes.removed = <<>>

InBoth == KeySet(dOld) \cap KeySet(dNew)

ChangedIffZonesDiffer ==
    \A t \in InBoth :
        /\ t \in KeySet(dRes.changed)
               <=> CountyCodeSet(Get(dOld, t)) # CountyCodeSet(Get(dNew, t))
        /\ t \in KeySet(dRes.changed) =>
               /\ Get(dRes.changed, t) = Get(dNew, t)
               /\ Get(dRes.details, t).old = CountyCodeSet(Get(dOld, t))

\* C6 as stated: a title of both collections is changed iff its sets of
\* zone codes differ, and then added_zones = new_zones \ old_zones and
\* removed_zones = old_zones \ new_zones.
C6_Original ==
    dPc = "done" /\ dNew # <<>> =>
        /\ ChangedIffZonesDiffer
        /\ \A t \in KeySet(dRes.changed) :
               LET old_zones == CountyCodeSet(Get(dOld, t))
                   new_zones == CountyCodeSet(Get(dNew, t))
               IN  /\ Get(dRes.details, t).added = new_zones \ old_zones
                   /\ Get(dRes.details, t).removed = old_zones \ new_zones

\* C6 as amended: the reported added and removed zones are those codes with
\* the characters {, } and " removed (the codes themselves when none of
\* them holds such a character).
C6_Amended ==
    dPc = "done" /\ dNew # <<>> =>
        /\ ChangedIffZonesDiffer
        /\ \A t \in KeySet(dRes.changed) :
               LET old_zones == CountyCodeSet(Get(dOld, t))
                   new_zones == CountyCodeSet(Get(dNew, t))
               IN  /\ Get(dRes.details, t).added
                          = {StripBraces(z) : z \in new_zones \ old_zones}
                   /\ Get(dRes.details, t).removed
                          = {StripBraces(z) : z \in old_zones \ new_zones}
                   /\ (\A z \in old_zones \cup new_zones : StripBraces(z) = z) =>
                          /\ Get(dRes.details, t).added = new_zones \ old_zones
                          /\ Get(dRes.details, t).removed = old_zones \ new_zones

\* one title gained and lost a zone, and another title of both collections
\* differs in its occurrences but not in its set of zones
C6_Witness ==
    /\ dPc = "done"
    /\ \E t \in KeySet(dRes.changed) :
           /\ Get(dRes.details, t).added = {ZoneB}
           /\ Get(dRes.details, t).removed # {}
    /\ \E t \in InBoth :
           /\ t \notin KeySet(dRes.changed)
           /\ Get(dOld, t) # Get(dNew, t)

(***************************************************************************)
(* Claims about the poll cycle, checked under Spec.                        *)
(***************************************************************************)
\* the state on disk
Persisted_state == load_state(Now0)

\* C1: over any sequence of poll cycles, the action of a trigger mapping is
\* executed at most once (per command, per node) for a title during one
\* continuous activation of that title, also when the title matches several
\* of the mapping's glob patterns.
C1_SingleFire == \A k \in MappingIds \X CycleTitles : fired[k] <= 1

\* the titles and, per title, the zone codes of a collection
TitlesAndZones(coll) == [t \in KeySet(coll) |-> CountyCodeSet(Get(coll, t))]

\* a cycle that completes after a completed cycle and meets the same titles
\* with the same zone codes
SameFeedAgain ==
    /\ outcome = "done"
    /\ outcome' = "done"
    /\ TitlesAndZones(fetched') = TitlesAndZones(fetched)

\* nothing is written and nothing is run
NoMutationNoEffect ==
    /\ effects' = <<>>
    /\ dataFile' = dataFile
    /\ tailFile' = tailFile
    /\ rptCT1' = rptCT1 /\ rptCT2' = rptCT2 /\ rptID' = rptID

\* C2: a cycle that runs after a completed cycle, with a feed that yields the
\* same titles and the same zone codes per title, writes nothing to the
\* persisted state and performs no side effect.
C2_Idempotent == [][SameFeedAgain => NoMutationNoEffect]_vars

\* the selection for one switch: WX when a persisted title is in the list
Selected(specified_alerts) ==
    IF \E t \in KeySet(Persisted_state.last_alerts) : t \in Range(specified_alerts)
    THEN "WX" ELSE "NORMAL"

\* C4: with auto-change enabled from the first run, at the end of every
\* completed cycle the persisted tone is WX if and only if a title of the
\* persisted last_alerts is in CTAlerts, and NORMAL otherwise; the same for
\* the identifier with IDAlerts.
C4_Selection ==
    outcome = "done" =>
        /\ cfg.EnableCT => Persisted_state.ct = Selected(cfg.CTAlerts)
        /\ cfg.EnableID => Persisted_state.id = Selected(cfg.IDAlerts)

\* a completed cycle that leaves a flood watch alone: the identifier is WX
\* and the tone is NORMAL
C4_Witness ==
    /\ outcome = "done"
    /\ cfg.EnableCT /\ cfg.EnableID
    /\ KeySet(Persisted_state.last_alerts) = {FloodWatch}
    /\ Persisted_state.ct = "NORMAL"
    /\ Persisted_state.id = "WX"
    /\ rptCT1 = "CT1" /\ rptID = "WXID"

\* C10: on every path of get_alerts no title with zero occurrences is in the
\* collection handed to the severity sort or returned.
C10_NonEmpty == \A i \in DOMAIN fetched : fetched[i][2] # <<>>

(***************************************************************************)
(* Claims about the state file (checked under SpecLoad).                   *)
(***************************************************************************)
\* C11: load_state never fails: whether the state file is missing, is not
\* parseable or lacks fields, it returns a complete state with defaults for
\* everything absent, and change_ct, change_id, alert_script and say_alerts
\* proceed instead of terminating.
C11_NeverFails ==
    pc = "called" =>
        /\ result.exc = None
        /\ result.state.absent_keys = {}

(***************************************************************************)
(* Claims about get_alerts (checked under SpecFetch).                      *)
(***************************************************************************)
\* the fetch of some zone fails
SomeFetchFails == \E i \in DOMAIN args.feed : ~args.feed[i].ok

\* C12: a cycle in which the fetch for some zone fails is never escalated to
\* termination: for every persisted last_alerts, also one whose occurrences
\* of some title have all expired, get_alerts returns a collection and main
\* runs the cycle to completion.
C12_Continuation == pc = "called" /\ SomeFetchFails => ~result.raised

\* the first zone whose fetch fails
FirstFailing ==
    CHOOSE k \in DOMAIN args.feed :
        ~args.feed[k].ok /\ \A j \in 1..(k - 1) : args.feed[j].ok

\* the occurrences of a collection with their titles, in order
OccurrencesOf(coll) ==
    Flatten([i \in DOMAIN coll |->
                [j \in DOMAIN coll[i][2] |-> <<coll[i][1], coll[i][2][j]>>]])

\* the persisted occurrences that end at the instant of the call or later
PersistedUnexpired ==
    LET Current(p) == p[2].end_time_utc >= args.current_time
    IN  SelectSeq(OccurrencesOf(dataFile[1].last_alerts), Current)

\* C13: when the fetch for zone k fails and a state file exists, the
\* unsorted collection consists exactly of the occurrences of the persisted
\* last_alerts whose end time is >= now, with nothing kept from the zones
\* fetched before k, and no zone after k is fetched.
C13_FallbackContent ==
    pc = "called" /\ args.fn = "get_alerts" /\ SomeFetchFails /\ dataFile # <<>> =>
        /\ OccurrencesOf(result.unsorted) = PersistedUnexpired
        /\ result.requested = SubSeq(COUNTY_CODES, 1, FirstFailing)

\* the second fetch fails after the first zone returned a record in force;
\* of the three stored occurrences only the one that ends at 3 is left
C13_Witness ==
    /\ pc = "called" /\ args.fn = "get_alerts"
    /\ args.feed[1].ok /\ args.feed[1].features = <<FeatTornado>>
    /\ ~args.feed[2].ok
    /\ args.current_time = 2
    /\ dataFile # <<>>
    /\ Len(OccurrencesOf(dataFile[1].last_alerts)) = 3
    /\ OccurrencesOf(result.unsorted) = <<<<TornadoWarning, Occ(ZoneA, 4, "d1", 3)>>>>
    /\ result.requested = COUNTY_CODES

(***************************************************************************)
(* Claims about save_state (checked under SpecPersist).                    *)
(***************************************************************************)
\* the two collections have the same titles in the same order and, per
\* title, the same occurrences in the same order, field by field
SameCollection(a, b) ==
    /\ Len(a) = Len(b)
    /\ \A i \in DOMAIN a :
        /\ a[i][1] = b[i][1]
        /\ Len(a[i][2]) = Len(b[i][2])
        /\ \A j \in DOMAIN a[i][2] :
            /\ a[i][2][j].county_code = b[i][2][j].county_code
            /\ a[i][2][j].severity = b[i][2][j].severity
            /\ a[i][2][j].description = b[i][2][j].description
            /\ a[i][2][j].end_time_utc = b[i][2][j].end_time_utc

AllFetched == \A i \in DOMAIN args.feed : args.feed[i].ok

\* the record's start and end are both resolved
Resolved(f) == time_type_start(f) # <<>> /\ EndField(f) # <<>>

\* start <= now < end at the instant of the call
InForce(f) ==
    /\ ToUtc(time_type_start(f)) <= args.current_time
    /\ args.current_time < ToUtc(EndField(f))

\* the event name matches a pattern of the global block list
GloballyBlocked(f) ==
    \E k \in DOMAIN cfg.GlobalBlockedEvents : fnmatch(f.event, cfg.GlobalBlockedEvents[k])

\* the records of the feed, by zone and position, that pass the three tests
QualifyingRecords ==
    {p \in {<<i, j>> : i \in DOMAIN args.feed, j \in 1..MaxFetchFeatures} :
        /\ p[2] <= Len(args.feed[p[1]].features)
        /\ LET f == args.feed[p[1]].features[p[2]]
           IN  Resolved(f) /\ InForce(f) /\ ~GloballyBlocked(f)}

\* the occurrence entry comes from the record at p
ComesFrom(entry, p) ==
    LET f == args.feed[p[1]].features[p[2]]
    IN  /\ entry[1] = f.event
        /\ entry[2].county_code = COUNTY_CODES[p[1]]
        /\ entry[2].description = f.description
        /\ entry[2].end_time_utc = ToUtc(EndField(f))

\* C15: on the normal fetch path every occurrence of the collection of
\* get_alerts comes from a record whose start and end were both resolved,
\* with start <= now < end, and whose event matches no pattern of the global
\* block list; a record failing one of these contributes no occurrence.
C15_Filtering ==
    pc = "called" /\ args.fn = "get_alerts" /\ AllFetched =>
        /\ ~result.raised
        /\ \A e \in Range(OccurrencesOf(result.unsorted)) \cup Range(OccurrencesOf(result.alerts)) :
               \E p \in QualifyingRecords : ComesFrom(e, p)
        /\ Len(OccurrencesOf(result.unsorted)) = Cardinality(QualifyingRecords)

\* at 1 the tornado warning is in force and the flood watch has just ended
C15_Witness ==
    /\ pc = "called" /\ args.fn = "get_alerts"
    /\ args.feed[1] = [ok |-> TRUE, features |-> <<FeatFlood>>]
    /\ args.feed[2] = [ok |-> TRUE, features |-> <<FeatTornado>>]
    /\ args.current_time = 1
    /\ result.alerts = <<<<TornadoWarning, <<Occ(ZoneB, 4, "d1", 3)>>>>>>

(***************************************************************************)
(* Claims about the severity of an occurrence (checked under SpecSeverity).*)
(***************************************************************************)
\* the table of the API's severity field
ApiTable(word) ==
    IF word = "Extreme" THEN 4 ELSE IF word = "Severe" THEN 3
    ELSE IF word = "Moderate" THEN 2 ELSE IF word = "Minor" THEN 1 ELSE 0

\* the table of the last word of a title
WordTable(word) ==
    IF word = "Warning" THEN 4 ELSE IF word = "Watch" THEN 3
    ELSE IF word = "Advisory" THEN 2 ELSE IF word = "Statement" THEN 1 ELSE 0

\* C16: every occurrence's severity is an integer in 0..4: the API-table
\* value of the feed's severity field when the field is present, and
\* otherwise the word-table value of the last word of the title.
C16_Severity ==
    pc = "called" =>
        /\ Len(result) = 1
        /\ Len(result[1][2]) = 1
        /\ LET f == args.feature
               severity == result[1][2][1].severity
           IN  /\ severity \in 0..4
               /\ f.severity # <<>> => severity = ApiTable(f.severity[1])
               /\ f.severity = <<>> => severity = WordTable(f.event[Len(f.event)])

\* a warning the API calls minor: 1, not the 4 of the word
C16_Witness ==
    /\ pc = "called"
    /\ args.feature.event = FloodWarning
    /\ args.feature.severity = <<"Minor">>
    /\ result[1][2][1].severity = 1

(***************************************************************************)
(* Claims about the trigger dispatcher in the poll cycle (checked under    *)
(* Spec).                                                                  *)
(***************************************************************************)
\* the commands of trigger mappings in a log
TriggerEvents(fx) == SelectSeq(fx, LAMBDA e : e.kind \in {"bash", "dtmf"})

\* at the end of a cycle active_alerts is the title set of last_alerts
ActiveIsLast == Persisted_state.active_alerts = KeySet(Persisted_state.last_alerts)

NewTitles == KeySet(args.alerts) \ result.state.active_alerts

\* mapping m ran a command
Fired(m) == \E i \in DOMAIN effects : effects[i].kind \in {"bash", "dtmf"} /\ effects[i].m = m

\* the new titles that match at least one pattern of mapping m
MatchingTitles(m) == {t \in NewTitles : MatchesAny(t, cfg.Mappings[m].Triggers)}

\* C18: a mapping with match mode ALL fires only if the number of distinct
\* new titles that match at least one of its patterns equals the number of
\* its patterns; one title that matches both patterns of a two-pattern
\* mapping counts once and does not fire it.
C18_AllMode ==
    pc = "called" =>
        \A m \in DOMAIN cfg.Mappings :
            cfg.Mappings[m].Match = "ALL" /\ Fired(m) =>
                Cardinality(MatchingTitles(m)) = Len(cfg.Mappings[m].Triggers)

\* C19: after every run of alert_script every processed title is a title of
\* the current collection (processed is a subset of active_alerts), and a
\* processed title whose alert has been removed is no longer processed.
C19_Cleanup ==
    pc = "called" =>
        /\ Persisted_state.alertscript_alerts \subseteq KeySet(args.alerts)
        /\ Persisted_state.alertscript_alerts \subseteq Persisted_state.active_alerts
        /\ \A t \in result.state.alertscript_alerts \ KeySet(args.alerts) :
               t \notin Persisted_state.alertscript_alerts

\* the tornado warning was processed and is gone; the flood warning is new
\* and processed in its place
C19_Witness ==
    /\ pc = "called"
    /\ TornadoWarning \in result.state.alertscript_alerts
    /\ KeySet(args.alerts) = {FloodWarning}
    /\ Persisted_state.alertscript_alerts = {FloodWarning}

(***************************************************************************)
(* Claims about the zone identifiers of the announcement and of the tail   *)
(* message (checked under SpecSay).                                        *)
(***************************************************************************)
\* the sound say_alerts exported to alert.wav
AlertWav ==
    LET IsClip(e) == e.kind = "alert.wav"
        clips == SelectSeq(result, IsClip)
    IN  [i \in DOMAIN clips |-> Seg(clips[i].a, clips[i].title, clips[i].b)]

\* the segment of a title in a sound: from the title's clip up to the next
\* separator
SegmentOf(sound, title) ==
    LET start == CHOOSE i \in DOMAIN sound : sound[i] = Seg("alert", title, "")
        stops == {j \in DOMAIN sound : j > start /\ sound[j].kind = "separator"}
        stop == IF stops = {} THEN Len(sound) + 1
                ELSE CHOOSE j \in stops : \A k \in stops : j <= k
    IN  SubSeq(sound, start, stop - 1)

\* the identifier clips of a segment, in order
IdentifiersIn(segment) ==
    LET IsId(g) == g.kind = "county"
        ids == SelectSeq(segment, IsId)
    IN  [i \in DOMAIN ids |-> ids[i].arg]

\* the identifier clip of each distinct configured zone code among the
\* occurrences, once, in occurrence order
ZoneIdentifiers(occs) ==
    LET First(i) == /\ occs[i].county_code \in Range(COUNTY_CODES)
                    /\ \A j \in 1..(i - 1) : occs[j].county_code # occs[i].county_code
        firsts == SelectSeq([i \in DOMAIN occs |-> i], First)
    IN  [k \in DOMAIN firsts |-> COUNTY_WAVS[CodeIndex(occs[firsts[k]].county_code)]]

\* every alert of the call that is neither blocked nor unknown has its
\* segment in the sound, with exactly its zone identifiers
IdentifiersRight(sound, blocked) ==
    \A i \in DOMAIN args.alerts :
        LET title == args.alerts[i][1]
        IN  (/\ ~MatchesAny(title, blocked)
             /\ title \in Range(ALERT_STRINGS)
             /\ title \notin cfg.MissingClips) =>
                /\ \E j \in DOMAIN sound : sound[j] = Seg("alert", title, "")
                /\ IdentifiersIn(SegmentOf(sound, title)) = ZoneIdentifiers(args.alerts[i][2])

\* C20: in the announcement (say_alerts) and in the tail message
\* (build_tailmessage with zone identifiers enabled), the segment of every
\* non-skipped alert contains the identifier clip of each distinct
\* configured zone code among that alert's occurrences exactly once, in
\* occurrence order, whether or not the same zone was already announced for
\* an earlier alert of the same build.
C20_ZoneIdentifiers ==
    pc = "built" =>
        /\ IdentifiersRight(AlertWav, cfg.SayAlertBlockedEvents)
        /\ IdentifiersRight(tailFile, cfg.TailmessageBlockedEvents)

\* C21: when build_tailmessage is given a non-empty collection in which
\* every alert matches the tail-message block-list, the tail message written
\* is the same 100 ms silence as for an empty collection, with no suffix
\* clip and no leading pad.
C21_AllBlockedSilence ==
    (/\ pc = "built"
     /\ args.alerts # <<>>
     /\ \A i \in DOMAIN args.alerts :
            MatchesAny(args.alerts[i][1], cfg.TailmessageBlockedEvents))
        => tailFile = Silence100

IsSilenced(i) == effects[i] = Ev("export", NoTitle, "tailmessage", "silence")
IsPlayback(i) == effects[i].kind = "localplay" /\ effects[i].a = "alert"
IsWait(i) == effects[i].kind = "sleep"
IsRebuilt(i) == effects[i] = Ev("export", NoTitle, "tailmessage", "alerts")

\* C23: in every cycle that dispatches a spoken announcement, the tail
\* message is replaced by the short silence, then the playback is
\* dispatched to the nodes, then the wait completes, and only then is the
\* tail message regenerated: no regeneration lies between the silence write
\* and the end of the wait.
C23_AnnouncementOrder ==
    \A p \in DOMAIN effects :
        IsPlayback(p) =>
            \E s \in 1..(p - 1), e \in (p + 1)..Len(effects) :
                /\ IsSilenced(s)
                /\ IsWait(e)
                /\ \A j \in (s + 1)..(p - 1) : IsPlayback(j)
                /\ \A j \in (p + 1)..(e - 1) : IsPlayback(j)
                /\ \A j \in DOMAIN effects : IsRebuilt(j) => j > e

\* a cycle announced an alert and rebuilt the tail message
C23_Witness ==
    /\ \E p \in DOMAIN effects : IsPlayback(p)
    /\ \E j \in DOMAIN effects : IsRebuilt(j)
    /\ tailFile # Silence100

\* the log holds the all-clear announcement
SaidAllClear(fx) ==
    \E i \in DOMAIN fx : fx[i] = Ev("export", NoTitle, "allclear.wav", "")

\* C24: with the all-clear enabled, say_allclear runs in a cycle if and
\* only if the cycle completes, the alert set persisted by the cycles before
\* was non-empty and the current alert set is empty; it never runs in two
\* consecutive cycles, and never when it is disabled.
C24_AllClear ==
    [][ /\ SaidAllClear(effects') <=>
            (/\ cfg.SayAllClear
             /\ outcome' = "done"
             /\ load_state(Now0).last_alerts # <<>>
             /\ fetched' = <<>>)
        /\ SaidAllClear(effects) => ~SaidAllClear(effects') ]_vars

\* a cycle said the all-clear
C24_Witness == SaidAllClear(effects) /\ fetched = <<>> /\ outcome = "done"

(***************************************************************************)
(* Claims about a cycle that fails (checked under SpecCrash).              *)
(***************************************************************************)
\* the cycle that wrote the log fx ended with an exception of its fan-out
FanOutFailed(fx) == fx # <<>> /\ fx[Len(fx)].kind = "raise"

\* C25: if a cycle detects a change but fails before completing its
\* fan-out, the persisted last_alerts still has the value it had before the
\* cycle.
C25_NoPersistence ==
    [][ FanOutFailed(effects') =>
            load_state(Now0)'.last_alerts = load_state(Now0).last_alerts ]_vars

(***************************************************************************)
(* Claims about alerts without a clip (checked under SpecSay).             *)
(***************************************************************************)
\* the title has no clip: it is not in ALERT_STRINGS, or its file is missing
NoClip(title) == title \notin Range(ALERT_STRINGS) \/ title \in cfg.MissingClips

\* the collection of the call without the alerts that have no clip
WithClip ==
    LET Has(item) == ~NoClip(item[1]) IN SelectSeq(args.alerts, Has)

\* the titles of the title clips of a sound, in order
TitleClips(sound) ==
    LET IsTitle(g) == g.kind = "alert"
        clips == SelectSeq(sound, IsTitle)
    IN  [i \in DOMAIN clips |-> clips[i].title]

\* the number of separators of a sound
Separators(sound) == Cardinality({i \in DOMAIN sound : sound[i].kind = "separator"})

\* C26: in the announcement and in the tail message, an alert whose title
\* is not in ALERT_STRINGS or whose title clip is missing contributes no
\* segment at all (no separator, no clip, no identifiers), and the other
\* alerts contribute, in iteration order, the segments they contribute when
\* the collection is built without it.
C26_Recoverable ==
    pc = "built" =>
        /\ \A i \in DOMAIN args.alerts :
               NoClip(args.alerts[i][1]) =>
                   /\ args.alerts[i][1] \notin Range(TitleClips(tailFile))
                   /\ args.alerts[i][1] \notin Range(TitleClips(AlertWav))
        /\ Separators(tailFile) = Len(TitleClips(tailFile))
        /\ Separators(AlertWav) = Len(TitleClips(AlertWav))
        /\ TailLoop(args.alerts, 1, {}, <<>>) = TailLoop(WithClip, 1, {}, <<>>)
        /\ WithClip # <<>> => tailFile = build_tailmessage(Now0, WithClip).tail
        /\ AlertWav = IF Announced(WithClip) = <<>> THEN <<>> ELSE SayAlertSound(WithClip)

\* an alert without a clip stood before one with a clip and zone
\* identifiers, in both modes
C26_Witness ==
    /\ pc = "built"
    /\ Len(args.alerts) = 2
    /\ NoClip(args.alerts[1][1])
    /\ TitleClips(tailFile) = <<args.alerts[2][1]>>
    /\ TitleClips(AlertWav) = <<args.alerts[2][1]>>
    /\ IdentifiersIn(tailFile) # <<>>

(***************************************************************************)
(* Claims about the announcement of changed zones (checked under Spec).    *)
(***************************************************************************)
\* the sound exported to alert.wav in the log fx
WavOf(fx) ==
    LET IsClip(e) == e.kind = "alert.wav"
        clips == SelectSeq(fx, IsClip)
    IN  [i \in DOMAIN clips |-> Seg(clips[i].a, clips[i].title, clips[i].b)]

\* the titles of both collections that have a zone in cur they had not in
\* prev
GainedZone(prev, cur) ==
    {t \in KeySet(prev) \cap KeySet(cur) :
        CountyCodeSet(Get(cur, t)) \ CountyCodeSet(Get(prev, t)) # {}}

\* the titles of both collections whose zones differ
ZonesDiffer(prev, cur) ==
    {t \in KeySet(prev) \cap KeySet(cur) :
        CountyCodeSet(Get(cur, t)) # CountyCodeSet(Get(prev, t))}

\* a completed cycle from prev to cur in which no title was added or
\* removed and a zone was added to an existing alert, with the announcement
\* of changed alerts enabled
ZoneAdded(prev, cur, done) ==
    /\ done = "done"
    /\ SayChanged
    /\ KeySet(prev) = KeySet(cur)
    /\ GainedZone(prev, cur) # {}

\* exactly one announcement, of the changed titles only, and neither a
\* switch of tone or identifier nor a trigger
OneAnnouncement(prev, cur, fx) ==
    /\ Cardinality({i \in DOMAIN fx : fx[i] = Ev("export", NoTitle, "alert.wav", "")}) = 1
    /\ Range(TitleClips(WavOf(fx))) = ZonesDiffer(prev, cur)
    /\ \A i \in DOMAIN fx : fx[i].kind \notin {"copyfile", "bash", "dtmf"}

\* the identifiers of every title that gained a zone are those of the
\* zones it gained
OnlyNewZones(prev, cur, fx) ==
    \A t \in GainedZone(prev, cur) :
        {COUNTY_WAVS[CodeIndex(code)] :
            code \in CountyCodeSet(Get(cur, t)) \ CountyCodeSet(Get(prev, t))}
        = Range(IdentifiersIn(SegmentOf(WavOf(fx), t)))

\* C27: in a cycle where no title is added or removed but a zone is added
\* to an existing alert, with the announcement of changed alerts enabled,
\* exactly one announcement is built, it covers only the changed title, its
\* zone identifiers are only those of the newly added zones, and neither a
\* tone or identifier transition nor a trigger runs.
C27_ZoneChange ==
    [][ ZoneAdded(load_state(Now0).last_alerts, fetched', outcome') =>
            /\ OneAnnouncement(load_state(Now0).last_alerts, fetched', effects')
            /\ OnlyNewZones(load_state(Now0).last_alerts, fetched', effects') ]_vars

(***************************************************************************)
(* Claims about the suffix and the pad of the tail message (checked under  *)
(* SpecSay).                                                               *)
(***************************************************************************)
HasPad(sound) == sound # <<>> /\ sound[1] = Seg("silence", NoTitle, "AUDIO_DELAY")
HasSuffix(sound) == \E i \in DOMAIN sound : sound[i].kind = "suffix"

\* C28: build_tailmessage applies at most one of the suffix clip and the
\* leading pad of AUDIO_DELAY: with a suffix configured no pad is
\* prepended, and an applied suffix is the last segment, after the segments
\* of all alerts.
C28_SuffixOrPad ==
    pc = "built" =>
        /\ ~(HasPad(tailFile) /\ HasSuffix(tailFile))
        /\ cfg.TailmessageSuffix # None => ~HasPad(tailFile)
        /\ \A i \in DOMAIN tailFile :
               tailFile[i].kind = "suffix" =>
                   /\ i = Len(tailFile)
                   /\ tailFile[i].arg = cfg.TailmessageSuffix

\* a tail message of an alert was built with a suffix and an audio delay
\* configured, and has the suffix
C28_Witness ==
    /\ pc = "built"
    /\ cfg = ConfigSuffixDelay
    /\ TitleClips(tailFile) # <<>>
    /\ HasSuffix(tailFile)

(***************************************************************************)
(* Claims about the frame of the switches (checked under SpecLoad).        *)
(***************************************************************************)
\* the state as load_state gives it, or the default state when it raises
StateOf(loaded) == IF loaded = JSONDecodeError THEN DefaultState ELSE loaded

\* the two states agree on the collections: last_alerts, last_sayalert,
\* active_alerts and alertscript_alerts
SameCollections(a, b) ==
    /\ a.last_alerts = b.last_alerts
    /\ SameSayAlert(a.last_sayalert, b.last_sayalert)
    /\ a.active_alerts = b.active_alerts
    /\ a.alertscript_alerts = b.alertscript_alerts

\* C29: change_ct never changes the persisted identifier or the
\* identifier's active slot, change_id never changes the persisted tone or
\* the tone's active slots, and neither changes last_alerts, last_sayalert,
\* active_alerts or alertscript_alerts.
C29_Independent ==
    [][ /\ args.fn = "change_ct" =>
            /\ StateOf(load_state(Now0)').id = StateOf(load_state(Now0)).id
            /\ rptID' = rptID
            /\ SameCollections(StateOf(load_state(Now0)'), StateOf(load_state(Now0)))
        /\ args.fn = "change_id" =>
            /\ StateOf(load_state(Now0)').ct = StateOf(load_state(Now0)).ct
            /\ rptCT1' = rptCT1 /\ rptCT2' = rptCT2
            /\ SameCollections(StateOf(load_state(Now0)'), StateOf(load_state(Now0))) ]_vars

\* change_id switched the identifier of a state file that holds a tone and
\* an alert
C29_Witness ==
    /\ pc = "called"
    /\ args.fn = "change_id"
    /\ result.exc = None
    /\ CountKind(effects, "copyfile") = 1
    /\ StateOf(load_state(Now0)).id = "NORMAL"
    /\ StateOf(load_state(Now0)).ct = "NORMAL"
    /\ StateOf(load_state(Now0)).last_alerts # <<>>

(***************************************************************************)
(* Claims about the last announcement (checked under SpecSay).             *)
(***************************************************************************)
\* C30: when say_alerts is called in a later invocation with a collection
\* whose filtered titles and zone codes equal those recorded by the call
\* before, it skips: nothing is built, saved, dispatched or waited for, and
\* the tail message is not silenced.
C30_Deduplicated ==
    [][ (pc = "built" /\ pc' = "again") =>
            /\ effects' = <<>>
            /\ tailFile' = tailFile
            /\ dataFile' = dataFile ]_vars

(***************************************************************************)
(* Claims about the gaps around the zone identifiers (checked under        *)
(* SpecSay).                                                               *)
(***************************************************************************)
\* a sound without its suffix (the gap and the suffix clip at its end)
WithoutSuffix(sound) ==
    IF sound # <<>> /\ sound[Len(sound)].kind = "suffix"
    THEN SubSeq(sound, 1, Len(sound) - 2)
    ELSE sound

\* the positions of the identifier clips of a segment
IdentifierPositions(segment) == {p \in DOMAIN segment : segment[p].kind = "county"}

\* the gaps of a segment: 600 ms before its first identifier clip, 400 ms
\* before every later one, 600 ms after its last
GapsRight(segment) ==
    LET ids == IdentifierPositions(segment)
        IsGap(p, ms) == p \in DOMAIN segment /\ segment[p] = Seg("silence", NoTitle, ms)
    IN  \A p \in ids :
            /\ (\A q \in ids : p <= q) => IsGap(p - 1, "600")
            /\ (\E q \in ids : q < p) => IsGap(p - 1, "400")
            /\ (\A q \in ids : q <= p) => IsGap(p + 1, "600")

\* the segment of every title that has one in the sound has the right gaps
AllGapsRight(sound) ==
    \A i \in DOMAIN args.alerts :
        (\E j \in DOMAIN sound : sound[j] = Seg("alert", args.alerts[i][1], ""))
            => GapsRight(SegmentOf(WithoutSuffix(sound), args.alerts[i][1]))

\* C31: within the segment of one alert, in the announcement and in the
\* tail message, the gap before the first zone identifier clip announced is
\* 600 ms, the gap before every later identifier clip is 400 ms, and a
\* 600 ms gap follows the last identifier clip announced, also when the
\* first or last occurrence has no configured clip or repeats a zone
\* already announced.
C31_IdentifierGaps ==
    pc = "built" => AllGapsRight(AlertWav) /\ AllGapsRight(tailFile)

(***************************************************************************)
(* Claims about the block-lists of the two modes (checked under SpecSay).  *)
(***************************************************************************)
\* the collection of the call without the alerts whose title matches one of
\* the patterns
Unblocked(blocked) ==
    LET Kept(item) == ~MatchesAny(item[1], blocked) IN SelectSeq(args.alerts, Kept)

\* the titles of a collection that have a clip, in iteration order
TitlesWithClip(alerts_) ==
    LET Has(t) == ~NoClip(t) IN SelectSeq(Keys(alerts_), Has)

\* C32: an alert whose title matches a SayAlertBlockedEvents glob
\* contributes no segment to the announcement, and one whose title matches
\* a TailmessageBlockedEvents glob contributes none to the tail message;
\* each list acts on its own mode only, and the remaining alerts keep the
\* collection's iteration order.
C32_BlockLists ==
    pc = "built" =>
        /\ TitleClips(AlertWav) = TitlesWithClip(Unblocked(cfg.SayAlertBlockedEvents))
        /\ TitleClips(tailFile) = TitlesWithClip(Unblocked(cfg.TailmessageBlockedEvents))
        /\ Separators(AlertWav) = Len(TitleClips(AlertWav))
        /\ Separators(tailFile) = Len(TitleClips(tailFile))
        /\ AlertWav = IF Announced(args.alerts) = <<>> THEN <<>>
                      ELSE SayAlertSound(Unblocked(cfg.SayAlertBlockedEvents))
        /\ Unblocked(cfg.TailmessageBlockedEvents) # <<>> =>
               tailFile = build_tailmessage(Now0, Unblocked(cfg.TailmessageBlockedEvents)).tail

\* a flood warning blocked in the announcement only was left out of an
\* announcement that has another alert, and is in the tail message
C32_Witness ==
    /\ pc = "built"
    /\ cfg = ConfigSayBlocked
    /\ Keys(args.alerts) = <<FloodWarning, TornadoWarning>>
    /\ TitleClips(AlertWav) = <<TornadoWarning>>
    /\ TitleClips(tailFile) = <<FloodWarning, TornadoWarning>>

(***************************************************************************)
(* Claims about the "multiple instances" clip (checked under SpecSay).     *)
(***************************************************************************)
\* the occurrences carry more than one description or more than one end
\* time
Multiple(occs) ==
    \/ \E i, j \in DOMAIN occs : occs[i].description # occs[j].description
    \/ \E i, j \in DOMAIN occs : occs[i].end_time_utc # occs[j].end_time_utc

\* the segment has the 200 ms gap and the clip directly after the title's
\* clip
HasMultiplesClip(segment) ==
    /\ Len(segment) >= 3
    /\ segment[2] = Seg("silence", NoTitle, "200")
    /\ segment[3] = Seg("multiples", NoTitle, "SWP_149.wav")

\* no multiples clip anywhere else in the segment
NoStrayMultiples(segment) ==
    \A p \in DOMAIN segment : segment[p].kind = "multiples" => p = 3

MultiplesRight(sound) ==
    \A i \in DOMAIN args.alerts :
        (\E j \in DOMAIN sound : sound[j] = Seg("alert", args.alerts[i][1], "")) =>
            LET segment == SegmentOf(sound, args.alerts[i][1])
            IN  /\ HasMultiplesClip(segment) <=> Multiple(args.alerts[i][2])
                /\ NoStrayMultiples(segment)
                /\ ~Multiple(args.alerts[i][2]) =>
                       \A p \in DOMAIN segment : segment[p].kind # "multiples"

\* C33: with WithMultiples set, in the announcement and in the tail
\* message, the segment of an alert has the 200 ms gap and the "multiple
\* instances" clip directly after the title clip, before any zone
\* identifier, if and only if its occurrences carry more than one distinct
\* description or more than one distinct end time; several occurrences that
\* share one description and one end time get no such clip.
C33_Multiplicity ==
    (pc = "built" /\ cfg.WithMultiples) =>
        MultiplesRight(AlertWav) /\ MultiplesRight(tailFile)

\* an alert whose two occurrences differ in the end time only has the clip,
\* and one whose two occurrences share description and end time has none
C33_Witness ==
    /\ pc = "built"
    /\ cfg = ConfigCounties
    /\ Len(args.alerts) = 2
    /\ args.alerts[1] = <<TornadoWarning, <<Occ(ZoneB, 4, "d1", 3), Occ(ZoneB, 4, "d1", 5)>>>>
    /\ args.alerts[2] = <<FloodWarning, <<Occ(ZoneA, 4, "d1", 3), Occ(ZoneB, 4, "d1", 3)>>>>
    /\ HasMultiplesClip(SegmentOf(tailFile, TornadoWarning))
    /\ HasMultiplesClip(SegmentOf(AlertWav, TornadoWarning))
    /\ ~HasMultiplesClip(SegmentOf(tailFile, FloodWarning))
    /\ ~HasMultiplesClip(SegmentOf(AlertWav, FloodWarning))

(***************************************************************************)
(* Claims about the merge by title (checked under SpecFetch).              *)
(***************************************************************************)
\* the positions <<zone, record>> of the feed, in zone-fetch order then
\* record order
FeedPositions ==
    Flatten([i \in DOMAIN args.feed |->
                [j \in DOMAIN args.feed[i].features |-> <<i, j>>]])

\* the occurrences the surviving records of an event give, in feed order
SurvivingOccurrences(event) ==
    LET Survives(p) == p \in QualifyingRecords /\ args.feed[p[1]].features[p[2]].event = event
        kept == SelectSeq(FeedPositions, Survives)
    IN  [k \in DOMAIN kept |->
            LET f == args.feed[kept[k][1]].features[kept[k][2]]
            IN  Occ(COUNTY_CODES[kept[k][1]], FeatureSeverity(f), f.description,
                    ToUtc(EndField(f)))]

\* the events of the surviving records
SurvivingEvents ==
    {args.feed[p[1]].features[p[2]].event : p \in QualifyingRecords}

\* C34: on the normal fetch path, the titles of the unsorted collection are
\* the event names of the surviving feed records, and the occurrences of
\* every title are one for each surviving record of that event, in
\* zone-fetch order then record order; a zone code appears twice under a
\* title when the feed has two surviving records of that title for the zone.
C34_MergeByTitle ==
    (pc = "called" /\ args.fn = "get_alerts" /\ AllFetched) =>
        /\ KeySet(result.unsorted) = SurvivingEvents
        /\ \A i \in DOMAIN result.unsorted :
               result.unsorted[i][2] = SurvivingOccurrences(result.unsorted[i][1])

\* zone A returned the tornado warning twice and zone B once: the title has
\* three occurrences, two of them in zone A
C34_Witness ==
    /\ pc = "called" /\ args.fn = "get_alerts"
    /\ args.feed[1] = [ok |-> TRUE, features |-> <<FeatTornado, FeatTornado>>]
    /\ args.feed[2] = [ok |-> TRUE, features |-> <<FeatTornado>>]
    /\ args.current_time = 1
    /\ HasKey(result.unsorted, TornadoWarning)
    /\ CountyCodes(Get(result.unsorted, TornadoWarning)) = <<ZoneA, ZoneA, ZoneB>>

(***************************************************************************)
(* Claims about the alerts chosen for the announcement (checked under      *)
(* SpecAnnounce).                                                          *)
(***************************************************************************)
\* the titles say_alerts put into the announcement in the log fx, in order
SaidTitles(fx) ==
    LET IsSay(e) == e.kind = "say"
        said == SelectSeq(fx, IsSay)
    IN  [i \in DOMAIN said |-> said[i].title]

\* the titles of cur that prev has not, and those of prev that cur has not
AddedTitles(prev, cur) == KeySet(cur) \ KeySet(prev)
RemovedTitles(prev, cur) == KeySet(prev) \ KeySet(cur)

\* the titles the announcement of a cycle from prev to cur is to hold
ToSay(prev, cur) ==
    IF cfg.SayAlertAll THEN KeySet(cur)
    ELSE AddedTitles(prev, cur)
         \cup (IF cfg.SayAlertsChanged /\ cfg.CountyWavs /\ Len(COUNTY_CODES) > 1
               THEN ZonesDiffer(prev, cur) ELSE {})

\* the titles stand in the order of the severity sort: higher severity
\* first
SeveritySorted(titles, cur) ==
    \A i, j \in DOMAIN titles :
        i < j => MaxSeverity(Get(cur, titles[i])) >= MaxSeverity(Get(cur, titles[j]))

\* the cycle from prev to cur has completed, with the announcement enabled
\* and a title added or removed
TitlesChanged(prev, cur, done) ==
    /\ done = "done"
    /\ cfg.SayAlert
    /\ AddedTitles(prev, cur) # {} \/ RemovedTitles(prev, cur) # {}

\* C35: in a cycle where a title was added or removed and SayAlert is set,
\* the collection say_alerts announces holds, without SayAlertAll, exactly
\* the added titles, plus the changed titles when SayAlertsChanged is set
\* and more than one zone has an identifier clip, and never a title that is
\* neither added nor changed; with SayAlertAll it is the whole current
\* collection; in both cases it is sorted by severity, and it is what the
\* call records as last_sayalert.
C35_Selection ==
    [][ TitlesChanged(load_state(Now0).last_alerts, fetched', outcome') =>
            /\ Range(SaidTitles(effects')) = ToSay(load_state(Now0).last_alerts, fetched')
            /\ Len(SaidTitles(effects')) = Cardinality(ToSay(load_state(Now0).last_alerts, fetched'))
            /\ SeveritySorted(SaidTitles(effects'), fetched')
            /\ load_state(Now0)'.last_sayalert = List(SaidTitles(effects')) ]_vars

\* a cycle that ended with two alerts announced the tornado warning alone,
\* without SayAlertAll
C35_Witness ==
    /\ outcome = "done"
    /\ cfg = ConfigFull
    /\ Keys(fetched) = <<TornadoWarning, FloodWatch>>
    /\ SaidTitles(effects) = <<TornadoWarning>>

(***************************************************************************)
(* Claims about the state file between the stages of a cycle (checked      *)
(* under SpecStages).                                                      *)
(***************************************************************************)
\* the stages make up main: the cycle ends with the files and the log main
\* gives for the same feed and clock
StagesAreMain ==
    pc = "end" =>
        StageWorld = main(args.w0, args.feed, args.current_time, args.hash_order).w

\* the keys on which the persisted state differs before and after a step
KeysWritten(before, after) == {k \in StateKeys : before[k] # after[k]}

\* the keys a stage may write, by the position the cycle is at
OwnKeys(at) ==
    CASE at = "ready" -> {"ct", "id"}
      [] at = "loaded" -> {"last_alerts"}
      [] at = "saved" -> {"last_sayalert"}
      [] at = "cleared" -> {"ct"}
      [] at = "toned" -> {"id"}
      [] at = "ident" -> {"alertscript_alerts", "active_alerts"}
      [] at = "scripted" -> {"last_sayalert"}
      [] OTHER -> {}

\* C36: within one cycle every stage writes the state it has just read from
\* the file, changed in its own fields only: main's save only last_alerts,
\* alert_script only active_alerts and alertscript_alerts, say_alerts and
\* say_allclear only last_sayalert, the switches only ct and id; from main's
\* save to the end of the cycle the file holds the cycle's collection as
\* last_alerts, and no later stage reverts the tone or the identifier.
C36_NoLostUpdate ==
    [][ /\ KeysWritten(load_state(StageWorld), load_state(StageWorld)') \subseteq OwnKeys(pc)
        /\ pc' \in {"saved", "cleared", "toned", "ident", "scripted", "said"} =>
               load_state(StageWorld)'.last_alerts = result'.alerts
        /\ (pc' = "end" /\ pc = "said") =>
               load_state(StageWorld)'.last_alerts = result'.alerts ]_vars

\* a first cycle ended after every stage wrote its own field: the tone and
\* the identifier are WX, the tornado warning is in last_alerts, among the
\* active and processed alerts and last announced
C36_Witness ==
    /\ pc = "end"
    /\ args.w0.data = <<>>
    /\ load_state(StageWorld).ct = "WX"
    /\ load_state(StageWorld).id = "WX"
    /\ Keys(load_state(StageWorld).last_alerts) = <<TornadoWarning>>
    /\ load_state(StageWorld).active_alerts = {TornadoWarning}
    /\ load_state(StageWorld).alertscript_alerts = {TornadoWarning}
    /\ load_state(StageWorld).last_sayalert = List(<<TornadoWarning>>)

(***************************************************************************)
(* Claims about the persisted collection (checked under SpecStages).       *)
(***************************************************************************)
\* the cycle got its collection from get_alerts
Fetched_ok(res) == res # <<>> /\ ~res.raised

\* the two collections differ in their titles or in the zone codes of a
\* title
TitlesOrZonesDiffer(prev, cur) == TitlesAndZones(prev) # TitlesAndZones(cur)

\* C37: at the end of every completed cycle the persisted last_alerts has
\* the titles of the collection get_alerts returned in that cycle and, for
\* every title, the same set of zone codes; main saves last_alerts in a
\* cycle if and only if a title was added or removed or the zone set of a
\* title changed, and then last_alerts is the cycle's collection; nothing
\* else changes it.
C37_SnapshotTracksFeed ==
    [][ /\ (pc # "end" /\ pc' = "end" /\ Fetched_ok(result') /\ ~Raised(StageWorld)') =>
               TitlesAndZones(load_state(StageWorld)'.last_alerts)
                   = TitlesAndZones(result'.alerts)
        /\ (pc = "started" /\ pc' # "started" /\ Fetched_ok(result')) =>
               (pc' = "loaded" <=>
                    TitlesOrZonesDiffer(load_state(StageWorld).last_alerts, result'.alerts))
        /\ pc = "loaded" => load_state(StageWorld)'.last_alerts = result.alerts
        /\ load_state(StageWorld)'.last_alerts # load_state(StageWorld).last_alerts =>
               pc = "loaded" ]_vars

\* a cycle completed without a save: the feed has the flood watch in the
\* zone of the stored one, with another description, and the stored one is
\* still there
C37_Witness ==
    /\ pc = "end"
    /\ Fetched_ok(result)
    /\ effects = <<>>
    /\ result.alerts # <<>>
    /\ load_state(StageWorld).last_alerts # result.alerts
    /\ TitlesAndZones(load_state(StageWorld).last_alerts) = TitlesAndZones(result.alerts)

(***************************************************************************)
(* Claims about the match mode ANY and the kinds of action (checked under  *)
(* SpecScript).                                                            *)
(***************************************************************************)
\* the titles for which mapping m ran a command
TitlesRun(m) ==
    {effects[i].title : i \in {j \in DOMAIN effects :
                                  effects[j].kind \in {"bash", "dtmf"} /\ effects[j].m = m}}

\* the mapping is of mode ANY: Match is ANY in any case, or is not given
IsAnyMode(mapping) == mapping.Match \in {None, "ANY", "any", "Any"}

\* the mapping's action is of a known kind
KnownKind(mapping) == mapping.Type \in {"BASH", "DTMF"}

\* C38: a mapping of match mode ANY (the default when no mode is given)
\* fires in a call of alert_script if and only if at least one new title
\* matches at least one of its patterns, and then its action runs for each
\* matching new title and for no title that matches no pattern or is not
\* new.
C38_AnyMode ==
    pc = "called" =>
        \A m \in DOMAIN cfg.Mappings :
            (IsAnyMode(cfg.Mappings[m]) /\ KnownKind(cfg.Mappings[m])) =>
                /\ Fired(m) <=> MatchingTitles(m) # {}
                /\ TitlesRun(m) = MatchingTitles(m)

\* the mapping without Match ran its command for the new tornado warning
\* and not for the flood warning, which matches but was active before
C38_Witness ==
    /\ pc = "called"
    /\ cfg = ConfigKinds
    /\ KeySet(args.alerts) = {TornadoWarning, FloodWarning}
    /\ result.state.active_alerts = {FloodWarning}
    /\ TitlesRun(1) = {TornadoWarning}

\* C39: for a mapping whose Type is neither BASH nor DTMF no command is
\* executed, whatever titles match, and the rest of the call goes on as
\* usual: the mappings after it run their commands for the new titles they
\* match, and the state is saved with the current titles as active_alerts.
C39_UnknownKind ==
    pc = "called" =>
        \A m \in DOMAIN cfg.Mappings :
            ~KnownKind(cfg.Mappings[m]) =>
                /\ ~Fired(m)
                /\ \A i \in DOMAIN effects : effects[i].m # m
                /\ \A n \in DOMAIN cfg.Mappings :
                       (n > m /\ KnownKind(cfg.Mappings[n]) /\ IsAnyMode(cfg.Mappings[n])) =>
                           TitlesRun(n) = MatchingTitles(n)
                /\ effects # <<>> /\ effects[Len(effects)].kind = "save_state"
                /\ Persisted_state.active_alerts = KeySet(args.alerts)

\* a new flood warning matched the mapping of unknown kind: nothing was run
\* for it, and the DTMF mapping after it ran its command
C39_Witness ==
    /\ pc = "called"
    /\ cfg = ConfigKinds
    /\ FloodWarning \in MatchingTitles(2)
    /\ TitlesRun(2) = {}
    /\ TitlesRun(3) = {FloodWarning}
    /\ Persisted_state.active_alerts = KeySet(args.alerts)

====
